---- MODULE Spec2Model ----
(***************************************************************************)
(* gotify-webhook: the plugin that forwards the messages of a gotify       *)
(* stream to webhooks.  The model follows the variant with per-webhook     *)
(* application lists and a concurrent sendMessage (the one the tests of    *)
(* the repository exercise).                                               *)
(*                                                                         *)
(* Strings are sequences of tokens.  A token is one character ("a", "{",   *)
(* the quote Q, the backslash BS, the newline NL ...) or one template      *)
(* action of text/template ("{{.title}}", "{{", ...).                      *)
(***************************************************************************)
EXTENDS Integers, Sequences, FiniteSets, TLC

\* ------------------------------------------------------------------------
\* Bounds of the model
\* ------------------------------------------------------------------------
MaxHooks == 2
MaxEnable == 1
MaxContexts == 2
MaxSessions == 2
MaxFrames == 1
MaxBeats == 1

\* ------------------------------------------------------------------------
\* Strings
\* ------------------------------------------------------------------------
Q == "\""
BS == "\\"
NL == "\n"

RECURSIVE Concat(_)
Concat(ss) == IF ss = <<>> THEN <<>> ELSE Head(ss) \o Concat(Tail(ss))

Range(f) == {f[i] : i \in DOMAIN f}

\* ------------------------------------------------------------------------
\* text/template, as processTemplateString uses it
\* ------------------------------------------------------------------------
\* What the lexer and parser of text/template make of one token.
ActionKind(tok) ==
    CASE tok = "{{.title}}" -> "field"
      [] tok = "{{.message}}" -> "field"
      [] tok = "{{.other}}" -> "field"
      [] tok = "{{.title.x}}" -> "chain"
      [] tok = "{{title}}" -> "function"
      [] tok = "{{message}}" -> "function"
      [] tok = "{{" -> "unclosed"
      [] OTHER -> "text"

\* template.Parse: an action that is not closed, or one that calls a
\* function that is not defined, is a parse error.
TemplateParses(s) ==
    \A i \in DOMAIN s : ActionKind(s[i]) \notin {"function", "unclosed"}

\* The data Execute gets: map[string]interface{}{"title", "message"}.
TemplateData(msg) == [title |-> msg.Title, message |-> msg.Message]

\* Execute fails on a field of a value that has no fields (a string).
TemplateExecutes(s) ==
    \A i \in DOMAIN s : ActionKind(s[i]) # "chain"

ExecNodeNone(tok, data) == <<tok>>

\* What one node of the parsed template writes.
ExecNode(tok, data) ==
    CASE tok = "{{.title}}" -> data.title
      [] tok = "{{.message}}" -> data.message
      [] tok = "{{.other}}" -> <<"<no value>">>
      [] OTHER -> <<tok>>

processTemplateString(s, msg) ==
    IF ~TemplateParses(s) THEN [err |-> "failed to parse template", out |-> <<>>]
    ELSE IF ~TemplateExecutes(s) THEN [err |-> "failed to execute template", out |-> <<>>]
    ELSE [err |-> "", out |-> Concat([i \in DOMAIN s |-> ExecNode(s[i], TemplateData(msg))])]

\* ------------------------------------------------------------------------
\* encoding/json, as processWebhookBody uses it
\* ------------------------------------------------------------------------
\* The values json.Unmarshal stores in an interface{}.
JString(s) == [t |-> "string", s |-> s, keys |-> <<>>, items |-> <<>>]
JNumber(s) == [t |-> "number", s |-> s, keys |-> <<>>, items |-> <<>>]
JLiteral(s) == [t |-> s, s |-> <<>>, keys |-> <<>>, items |-> <<>>]
JArray(items) == [t |-> "array", s |-> <<>>, keys |-> <<>>, items |-> items]
JObject(keys, items) == [t |-> "object", s |-> <<>>, keys |-> keys, items |-> items]
JNull == JLiteral("null")

Whitespace == {" ", NL}
Digits == {"0", "1", "2"}
Literals == {"true", "false", "null"}

\* The bytewise order of the one-character tokens (map keys are sorted by
\* json.Marshal).
ByteOrder ==
    <<NL, " ", Q, ",", "0", "1", "2", ":", "[", BS, "]",
      "a", "b", "k", "m", "n", "t", "v", "{", "}">>

Rank(tok) ==
    IF \E i \in DOMAIN ByteOrder : ByteOrder[i] = tok
    THEN CHOOSE i \in DOMAIN ByteOrder : ByteOrder[i] = tok
    ELSE Len(ByteOrder) + 1

RECURSIVE StringLess(_, _)
StringLess(a, b) ==
    IF b = <<>> THEN FALSE
    ELSE IF a = <<>> THEN TRUE
    ELSE IF Rank(Head(a)) # Rank(Head(b)) THEN Rank(Head(a)) < Rank(Head(b))
    ELSE StringLess(Tail(a), Tail(b))

\* m[k] = v on a Go map, kept here as parallel sequences sorted by key.
MapSet(keys, items, k, v) ==
    IF \E i \in DOMAIN keys : keys[i] = k
    THEN [keys |-> keys,
          items |-> [i \in DOMAIN items |-> IF keys[i] = k THEN v ELSE items[i]]]
    ELSE LET n == Cardinality({i \in DOMAIN keys : StringLess(keys[i], k)})
         IN  [keys |-> SubSeq(keys, 1, n) \o <<k>> \o SubSeq(keys, n + 1, Len(keys)),
              items |-> SubSeq(items, 1, n) \o <<v>> \o SubSeq(items, n + 1, Len(items))]

RECURSIVE SkipSpace(_, _)
SkipSpace(s, i) ==
    IF i <= Len(s) /\ s[i] \in Whitespace THEN SkipSpace(s, i + 1) ELSE i

ParseFail == [ok |-> FALSE, v |-> JNull, next |-> 0]

\* The characters of a string literal, from the one after the opening quote.
RECURSIVE ParseString(_, _, _)
ParseString(s, i, acc) ==
    IF i > Len(s) THEN ParseFail
    ELSE IF s[i] = Q THEN [ok |-> TRUE, v |-> JString(acc), next |-> i + 1]
    ELSE IF s[i] = NL THEN ParseFail
    ELSE IF s[i] = "\\u003cno value\\u003e" THEN ParseString(s, i + 1, Append(acc, "<no value>"))
    ELSE IF s[i] = BS
         THEN IF i + 1 > Len(s) THEN ParseFail
              ELSE IF s[i + 1] \in {Q, BS} THEN ParseString(s, i + 2, Append(acc, s[i + 1]))
              ELSE IF s[i + 1] = "n" THEN ParseString(s, i + 2, Append(acc, NL))
              ELSE ParseFail
    ELSE ParseString(s, i + 1, Append(acc, s[i]))

RECURSIVE ParseValue(_, _), ParseMembers(_, _, _, _), ParseElements(_, _, _)

\* One value that starts at s[i] (white space already skipped).
ParseValue(s, i) ==
    IF i > Len(s) THEN ParseFail
    ELSE IF s[i] = Q THEN ParseString(s, i + 1, <<>>)
    ELSE IF s[i] \in Digits THEN [ok |-> TRUE, v |-> JNumber(<<s[i]>>), next |-> i + 1]
    ELSE IF s[i] \in Literals THEN [ok |-> TRUE, v |-> JLiteral(s[i]), next |-> i + 1]
    ELSE IF s[i] = "{"
         THEN LET j == SkipSpace(s, i + 1)
              IN  IF j <= Len(s) /\ s[j] = "}"
                  THEN [ok |-> TRUE, v |-> JObject(<<>>, <<>>), next |-> j + 1]
                  ELSE ParseMembers(s, j, <<>>, <<>>)
    ELSE IF s[i] = "["
         THEN LET j == SkipSpace(s, i + 1)
              IN  IF j <= Len(s) /\ s[j] = "]"
                  THEN [ok |-> TRUE, v |-> JArray(<<>>), next |-> j + 1]
                  ELSE ParseElements(s, j, <<>>)
    ELSE ParseFail

\* "key": value pairs up to the closing brace; a repeated key overwrites.
ParseMembers(s, i, keys, items) ==
    IF i > Len(s) \/ s[i] # Q THEN ParseFail
    ELSE LET k == ParseString(s, i + 1, <<>>)
         IN  IF ~k.ok THEN ParseFail
             ELSE LET c == SkipSpace(s, k.next)
                  IN  IF c > Len(s) \/ s[c] # ":" THEN ParseFail
                      ELSE LET r == ParseValue(s, SkipSpace(s, c + 1))
                           IN  IF ~r.ok THEN ParseFail
                               ELSE LET m == MapSet(keys, items, k.v.s, r.v)
                                        e == SkipSpace(s, r.next)
                                    IN  IF e > Len(s) THEN ParseFail
                                        ELSE IF s[e] = "}"
                                             THEN [ok |-> TRUE, v |-> JObject(m.keys, m.items),
                                                   next |-> e + 1]
                                        ELSE IF s[e] = ","
                                             THEN ParseMembers(s, SkipSpace(s, e + 1),
                                                               m.keys, m.items)
                                        ELSE ParseFail

ParseElements(s, i, items) ==
    LET r == ParseValue(s, i)
    IN  IF ~r.ok THEN ParseFail
        ELSE LET e == SkipSpace(s, r.next)
             IN  IF e > Len(s) THEN ParseFail
                 ELSE IF s[e] = "]"
                      THEN [ok |-> TRUE, v |-> JArray(Append(items, r.v)), next |-> e + 1]
                 ELSE IF s[e] = ","
                      THEN ParseElements(s, SkipSpace(s, e + 1), Append(items, r.v))
                 ELSE ParseFail

\* json.Unmarshal([]byte(body), &jsonBody) with jsonBody a
\* map[string]interface{}: the text must be one JSON value and that value an
\* object, or null, which leaves the map nil.
Unmarshal(body) ==
    LET r == ParseValue(body, SkipSpace(body, 1))
    IN  IF r.ok /\ SkipSpace(body, r.next) = Len(body) + 1 /\ r.v.t \in {"object", "null"}
        THEN [ok |-> TRUE, v |-> r.v]
        ELSE [ok |-> FALSE, v |-> JNull]

EscapeTokenRaw(tok) == <<tok>>

\* The text of a string value: quotes, backslashes, newlines and the angle
\* brackets escaped.
EscapeToken(tok) ==
    IF tok = Q THEN <<BS, Q>>
    ELSE IF tok = "<no value>" THEN <<"\\u003cno value\\u003e">>
    ELSE IF tok = BS THEN <<BS, BS>>
    ELSE IF tok = NL THEN <<BS, "n">>
    ELSE <<tok>>

Quote(s) == <<Q>> \o Concat([i \in DOMAIN s |-> EscapeToken(s[i])]) \o <<Q>>

RECURSIVE Marshal(_)
Marshal(v) ==
    CASE v.t = "string" -> Quote(v.s)
      [] v.t = "number" -> v.s
      [] v.t = "array" ->
            <<"[">> \o Concat([i \in DOMAIN v.items |->
                          (IF i > 1 THEN <<",">> ELSE <<>>) \o Marshal(v.items[i])])
                    \o <<"]">>
      [] v.t = "object" ->
            <<"{">> \o Concat([i \in DOMAIN v.items |->
                          (IF i > 1 THEN <<",">> ELSE <<>>)
                              \o Quote(v.keys[i]) \o <<":">> \o Marshal(v.items[i])])
                    \o <<"}">>
      [] OTHER -> <<v.t>>

\* ------------------------------------------------------------------------
\* The payload of one webhook
\* ------------------------------------------------------------------------
RECURSIVE processJSONRecursive(_, _), ArrayLoop(_, _, _, _), MapLoop(_, _, _, _)

\* The loop over the items of a []interface{}: a string item is rendered, a
\* map item is walked, any other item (a nested array too) is left alone.
\* err is the variable the whole function shares: each rendered or walked
\* item assigns it, and it is looked at only after the loop.
ArrayLoop(items, i, err, msg) ==
    IF i > Len(items) THEN [err |-> err, items |-> items]
    ELSE IF items[i].t = "string"
         THEN LET r == processTemplateString(items[i].s, msg)
              IN  ArrayLoop([items EXCEPT ![i] = JString(r.out)], i + 1, r.err, msg)
    ELSE IF items[i].t = "object"
         THEN LET r == processJSONRecursive(items[i], msg)
              IN  ArrayLoop([items EXCEPT ![i] = r.v], i + 1, r.err, msg)
    ELSE ArrayLoop(items, i + 1, err, msg)

\* The loop over the keys of the map (here in the order of the keys); it
\* returns at the first key that leaves err set.
MapLoop(keys, items, i, msg) ==
    IF i > Len(items) THEN [err |-> "", items |-> items]
    ELSE IF items[i].t = "string"
         THEN LET r == processTemplateString(items[i].s, msg)
                  done == [items EXCEPT ![i] = JString(r.out)]
              IN  IF r.err # "" THEN [err |-> r.err, items |-> done]
                  ELSE MapLoop(keys, done, i + 1, msg)
    ELSE IF items[i].t = "object"
         THEN LET r == processJSONRecursive(items[i], msg)
                  done == [items EXCEPT ![i] = r.v]
              IN  IF r.err # "" THEN [err |-> r.err, items |-> done]
                  ELSE MapLoop(keys, done, i + 1, msg)
    ELSE IF items[i].t = "array"
         THEN LET r == ArrayLoop(items[i].items, 1, "", msg)
                  done == [items EXCEPT ![i] = JArray(r.items)]
              IN  IF r.err # "" THEN [err |-> r.err, items |-> done]
                  ELSE MapLoop(keys, done, i + 1, msg)
    ELSE MapLoop(keys, items, i + 1, msg)

processJSONRecursive(m, msg) ==
    IF m.t # "object" THEN [err |-> "", v |-> m]
    ELSE LET r == MapLoop(m.keys, m.items, 1, msg)
         IN  [err |-> r.err, v |-> JObject(m.keys, r.items)]

processWebhookBody(body, msg) ==
    LET jsonBody == Unmarshal(body)
    IN  IF jsonBody.ok
        THEN LET r == processJSONRecursive(jsonBody.v, msg)
             IN  IF r.err # ""
                 THEN [err |-> "failed to process JSON body", out |-> <<>>]
                 ELSE [err |-> "", out |-> Marshal(r.v)]
        ELSE processTemplateString(body, msg)

\* ------------------------------------------------------------------------
\* net/url and net/http, as ValidateAndSetConfig and sendHTTPRequest use them
\* ------------------------------------------------------------------------
Letters == {"h", "t", "p", "w", "s", "a", "b"}

\* getScheme: the letters, digits, "+", "-" and "." before the first colon.
RECURSIVE getScheme(_, _)
getScheme(rawURL, i) ==
    IF i > Len(rawURL) THEN [err |-> "", scheme |-> <<>>, rest |-> rawURL]
    ELSE IF rawURL[i] \in Letters THEN getScheme(rawURL, i + 1)
    ELSE IF rawURL[i] \in Digits
         THEN IF i = 1 THEN [err |-> "", scheme |-> <<>>, rest |-> rawURL]
              ELSE getScheme(rawURL, i + 1)
    ELSE IF rawURL[i] = ":"
         THEN IF i = 1 THEN [err |-> "missing protocol scheme", scheme |-> <<>>, rest |-> <<>>]
              ELSE [err |-> "", scheme |-> SubSeq(rawURL, 1, i - 1),
                    rest |-> SubSeq(rawURL, i + 1, Len(rawURL))]
    ELSE [err |-> "", scheme |-> <<>>, rest |-> rawURL]

\* The index of the first tok in s, Len(s) + 1 if there is none.
RECURSIVE IndexOf(_, _, _)
IndexOf(s, tok, i) ==
    IF i > Len(s) \/ s[i] = tok THEN i ELSE IndexOf(s, tok, i + 1)

HasPrefix(s, p) == Len(s) >= Len(p) /\ SubSeq(s, 1, Len(p)) = p

\* parseHost with validOptionalPort: no blank in the host, and what follows a
\* colon is digits.
ValidAuthority(a) ==
    /\ \A i \in DOMAIN a : a[i] # " "
    /\ LET c == IndexOf(a, ":", 1)
       IN  \A i \in DOMAIN a : i > c => a[i] \in Digits

\* url.Parse: Scheme and Host of the URL, or an error.
urlParse(rawURL) ==
    LET g == getScheme(rawURL, 1)
        bad(e) == [err |-> e, Scheme |-> <<>>, Host |-> <<>>]
    IN  IF g.err # "" THEN bad(g.err)
        ELSE IF ~HasPrefix(g.rest, <<"/">>)
             THEN IF g.scheme # <<>> THEN [err |-> "", Scheme |-> g.scheme, Host |-> <<>>]
                  ELSE IF IndexOf(g.rest, ":", 1) < IndexOf(g.rest, "/", 1)
                       THEN bad("first path segment in URL cannot contain colon")
                  ELSE [err |-> "", Scheme |-> <<>>, Host |-> <<>>]
        ELSE IF HasPrefix(g.rest, <<"/", "/">>)
                /\ (g.scheme # <<>> \/ ~HasPrefix(g.rest, <<"/", "/", "/">>))
             THEN LET r == SubSeq(g.rest, 3, Len(g.rest))
                      authority == SubSeq(r, 1, IndexOf(r, "/", 1) - 1)
                  IN  IF ~ValidAuthority(authority) THEN bad("invalid host")
                      ELSE [err |-> "", Scheme |-> g.scheme, Host |-> authority]
        ELSE [err |-> "", Scheme |-> g.scheme, Host |-> <<>>]

\* validMethod of net/http: a non-empty token (no blank in it).
validMethod(method) ==
    method # <<>> /\ \A i \in DOMAIN method : method[i] # " "

\* http.NewRequestWithContext: an empty method means GET; it fails on a
\* method that is no token and on a URL that does not parse.
NewRequestFails(webhook) ==
    \/ (webhook.Method # <<>> /\ ~validMethod(webhook.Method))
    \/ urlParse(webhook.Url).err # ""

\* What the transport refuses before anything is sent.
HTTP == <<"h", "t", "t", "p">>
HTTPS == <<"h", "t", "t", "p", "s">>

TransportRefuses(webhook) ==
    LET u == urlParse(webhook.Url)
    IN  u.Scheme \notin {HTTP, HTTPS} \/ u.Host = <<>>

StatusIsErrorLoose(status) == status < 200 \/ status > 300

\* sendHTTPRequest on a response: the status check.
StatusIsError(status) == status < 200 \/ status >= 300

\* ------------------------------------------------------------------------
\* State
\* ------------------------------------------------------------------------
VARIABLES
    loaded,      \* the configuration the host has read from its YAML text
    config,      \* p.config: HostServer and WebHooks
    cancel,      \* p.cancel: 0 is nil, k the CancelFunc of context k
    ctxDone,     \* ctxDone[k]: context k (made by the k-th Enable) is cancelled
    returned,    \* the last call of the host into the plugin and the error it returned
    sup,         \* sup[k]: the goroutine Enable number k started
    conn,        \* conn[s]: the websocket connection of session s
    reader,      \* reader[s]: the goroutine that reads conn[s]
    readErrCh,   \* readErrCh[s]: the channel of that goroutine, capacity 1
    call,        \* call[s]: the sendMessage call of reader[s]
    worker,      \* worker[s][i]: the goroutine of call[s] for webhooks[i]
    requests,    \* the HTTP requests that went out to the webhook servers
    nframes,     \* how many frames the upstream server has sent
    limit        \* how far this run goes: Enable calls, dials, frames, heartbeats

vars == <<loaded, config, cancel, ctxDone, returned, sup, conn, reader, readErrCh,
          call, worker, requests, nframes, limit>>

\* The contexts a run can make: MaxEnable of them where Enable is called
\* once, MaxContexts where it is called again.
Contexts == 1..MaxContexts
Sessions == 1..MaxSessions

Min(a, b) == IF a < b THEN a ELSE b

\* ------------------------------------------------------------------------
\* sendMessage
\* ------------------------------------------------------------------------
POST == <<"P", "O", "S", "T">>

AppAllowedWrong(webhook, msg) == TRUE

AppAllowedStrict(webhook, msg) == \E a \in webhook.Apps : a = msg.ApplicationID

\* "Only messages from white-listed applications can be forwarded."
appAllowed(webhook, msg) ==
    webhook.Apps = {} \/ msg.ApplicationID \in webhook.Apps

\* The errors a goroutine of sendMessage appends.  hook is not part of the Go
\* value: it says which goroutine appended it.
ContextError(i) ==
    [hook |-> i, wrapped |-> FALSE, url |-> <<>>, text |-> "context canceled"]

BodyError(i, webhook) ==
    [hook |-> i, wrapped |-> TRUE, url |-> webhook.Url,
     text |-> "failed to process webhook body"]

RequestError(i, webhook, detail) ==
    [hook |-> i, wrapped |-> TRUE, url |-> webhook.Url, text |-> detail]

NoError == [hook |-> 0, wrapped |-> FALSE, url |-> <<>>, text |-> ""]

Statuses == {199, 200, 299, 300, 404}

\* The call sendMessage(ctx, msg, webhooks) of reader[s]: wg.Add(1) and one
\* goroutine for each webhook.
StartCall(s, k, msg, webhooks) ==
    /\ call' = [call EXCEPT ![s] =
                   [state |-> "running", ctx |-> k, msg |-> msg, webhooks |-> webhooks,
                    errors |-> <<>>, mu |-> 0, ctxAtCall |-> ctxDone[k]]]
    /\ worker' = [worker EXCEPT ![s] =
                   [i \in DOMAIN webhooks |-> [pc |-> "start", err |-> NoError]]]

Running(s, i, pc) ==
    /\ call[s].state = "running"
    /\ i \in DOMAIN worker[s]
    /\ worker[s][i].pc = pc

Goto(s, i, pc, err) ==
    worker' = [worker EXCEPT ![s][i] = [pc |-> pc, err |-> err]]

WorkerPrepareFilterError(s, i) ==
    LET c == call[s]
        webhook == c.webhooks[i]
    IN  /\ Running(s, i, "start")
        /\ IF ctxDone[c.ctx] THEN Goto(s, i, "lock", ContextError(i))
           ELSE IF ~appAllowed(webhook, c.msg)
                THEN Goto(s, i, "lock", RequestError(i, webhook, "not allowed"))
           ELSE IF processWebhookBody(webhook.Body, c.msg).err # ""
                THEN Goto(s, i, "lock", BodyError(i, webhook))
           ELSE Goto(s, i, "send", NoError)
        /\ UNCHANGED <<loaded, config, cancel, ctxDone, returned, sup, conn, reader, readErrCh,
                       call, requests, nframes, limit>>

WorkerPrepareNoCheck(s, i) ==
    LET c == call[s]
        webhook == c.webhooks[i]
    IN  /\ Running(s, i, "start")
        /\ IF ~appAllowed(webhook, c.msg) THEN Goto(s, i, "done", NoError)
           ELSE IF processWebhookBody(webhook.Body, c.msg).err # ""
                THEN Goto(s, i, "lock", BodyError(i, webhook))
           ELSE Goto(s, i, "send", NoError)
        /\ UNCHANGED <<loaded, config, cancel, ctxDone, returned, sup, conn, reader, readErrCh,
                       call, requests, nframes, limit>>

\* From the start of the goroutine to the call of sendHTTPRequest: the check
\* of ctx.Err(), the white list and processWebhookBody.
WorkerPrepare(s, i) ==
    LET c == call[s]
        webhook == c.webhooks[i]
    IN  /\ Running(s, i, "start")
        /\ IF ctxDone[c.ctx] THEN Goto(s, i, "lock", ContextError(i))
           ELSE IF ~appAllowed(webhook, c.msg) THEN Goto(s, i, "done", NoError)
           ELSE IF processWebhookBody(webhook.Body, c.msg).err # ""
                THEN Goto(s, i, "lock", BodyError(i, webhook))
           ELSE Goto(s, i, "send", NoError)
        /\ UNCHANGED <<loaded, config, cancel, ctxDone, returned, sup, conn, reader, readErrCh,
                       call, requests, nframes, limit>>

\* sendHTTPRequest up to the moment the request is on its way.
WorkerSend(s, i) ==
    LET c == call[s]
        webhook == c.webhooks[i]
    IN  /\ Running(s, i, "send")
        /\ IF NewRequestFails(webhook)
           THEN /\ Goto(s, i, "lock", RequestError(i, webhook, "failed to create request"))
                /\ UNCHANGED requests
           ELSE IF TransportRefuses(webhook) \/ ctxDone[c.ctx]
           THEN /\ Goto(s, i, "lock", RequestError(i, webhook, "failed to send request"))
                /\ UNCHANGED requests
           ELSE /\ Goto(s, i, "wait", NoError)
                /\ requests' = requests \cup
                      {[sess |-> s, id |-> c.msg.ID, hook |-> i, webhook |-> webhook,
                        app |-> c.msg.ApplicationID,
                        body |-> processWebhookBody(webhook.Body, c.msg).out,
                        result |-> "pending", status |-> 0]}
        /\ UNCHANGED <<loaded, config, cancel, ctxDone, returned, sup, conn, reader, readErrCh,
                       call, nframes, limit>>

Pending(s, i) ==
    CHOOSE r \in requests :
        r.sess = s /\ r.id = call[s].msg.ID /\ r.hook = i /\ r.result = "pending"

\* The webhook server answers with a status.
WorkerResponse(s, i) ==
    /\ Running(s, i, "wait")
    /\ \E status \in Statuses :
          /\ requests' = (requests \ {Pending(s, i)})
                            \cup {[Pending(s, i) EXCEPT !.result = "answered",
                                                         !.status = status]}
          /\ IF StatusIsError(status)
             THEN Goto(s, i, "lock",
                       RequestError(i, call[s].webhooks[i], "unexpected status code"))
             ELSE Goto(s, i, "done", NoError)
    /\ UNCHANGED <<loaded, config, cancel, ctxDone, returned, sup, conn, reader, readErrCh,
                   call, nframes, limit>>

WorkerTransportErrorRetry(s, i) ==
    /\ Running(s, i, "wait")
    /\ requests' = (requests \ {Pending(s, i)})
                      \cup {[Pending(s, i) EXCEPT !.result = "failed"]}
    /\ Goto(s, i, "send", NoError)
    /\ UNCHANGED <<loaded, config, cancel, ctxDone, returned, sup, conn, reader, readErrCh,
                   call, nframes, limit>>

\* http.DefaultClient.Do fails: the connection breaks, or the context is
\* cancelled while the request is on its way.
WorkerTransportError(s, i) ==
    /\ Running(s, i, "wait")
    /\ requests' = (requests \ {Pending(s, i)})
                      \cup {[Pending(s, i) EXCEPT !.result = "failed"]}
    /\ Goto(s, i, "lock", RequestError(i, call[s].webhooks[i], "failed to send request"))
    /\ UNCHANGED <<loaded, config, cancel, ctxDone, returned, sup, conn, reader, readErrCh,
                   call, nframes, limit>>

\* mu.Lock()
WorkerLock(s, i) ==
    /\ Running(s, i, "lock")
    /\ call[s].mu = 0
    /\ call' = [call EXCEPT ![s].mu = i]
    /\ Goto(s, i, "append", worker[s][i].err)
    /\ UNCHANGED <<loaded, config, cancel, ctxDone, returned, sup, conn, reader, readErrCh,
                   requests, nframes, limit>>

WorkerAppendLost(s, i) ==
    /\ Running(s, i, "append")
    /\ call' = [call EXCEPT ![s].errors = <<worker[s][i].err>>, ![s].mu = 0]
    /\ Goto(s, i, "done", NoError)
    /\ UNCHANGED <<loaded, config, cancel, ctxDone, returned, sup, conn, reader, readErrCh,
                   requests, nframes, limit>>

\* errors = append(errors, err); mu.Unlock(); return
WorkerAppend(s, i) ==
    /\ Running(s, i, "append")
    /\ call' = [call EXCEPT ![s].errors = Append(@, worker[s][i].err), ![s].mu = 0]
    /\ Goto(s, i, "done", NoError)
    /\ UNCHANGED <<loaded, config, cancel, ctxDone, returned, sup, conn, reader, readErrCh,
                   requests, nframes, limit>>

\* wg.Wait() is over.
AllDone(s) ==
    /\ call[s].state = "running"
    /\ \A i \in DOMAIN worker[s] : worker[s][i].pc = "done"

\* ------------------------------------------------------------------------
\* The reader goroutine of receiveMessages
\* ------------------------------------------------------------------------
DecodeAnything(frame) ==
    [ok |-> TRUE,
     msg |-> IF frame.kind = "event"
             THEN [ID |-> frame.id, ApplicationID |-> frame.app,
                   Title |-> frame.title, Message |-> frame.message]
             ELSE [ID |-> 0, ApplicationID |-> 0, Title |-> <<>>, Message |-> <<>>]]

\* json.Unmarshal(message, msg) into a MessageExternal: the text of an event
\* decodes, the JSON null decodes to the zero message, anything else fails.
Decode(frame) ==
    CASE frame.kind = "event" ->
            [ok |-> TRUE,
             msg |-> [ID |-> frame.id, ApplicationID |-> frame.app,
                      Title |-> frame.title, Message |-> frame.message]]
      [] frame.kind = "null" ->
            [ok |-> TRUE,
             msg |-> [ID |-> 0, ApplicationID |-> 0, Title |-> <<>>, Message |-> <<>>]]
      [] OTHER ->
            [ok |-> FALSE,
             msg |-> [ID |-> 0, ApplicationID |-> 0, Title |-> <<>>, Message |-> <<>>]]

ReaderReturnStay(s, err) ==
    /\ Len(readErrCh[s].buf) < 1
    /\ readErrCh' = [readErrCh EXCEPT ![s] = [buf |-> Append(@.buf, err), closed |-> FALSE]]
    /\ reader' = [reader EXCEPT ![s] = "select"]
    /\ sup' = [k \in Contexts |->
                 IF sup[k].sess = s /\ sup[k].pc = "parked"
                 THEN [sup[k] EXCEPT !.pc = "readErrCh"]
                 ELSE sup[k]]

\* readErrCh <- err; return, with the deferred close(readErrCh).
\* The send wakes the select of receiveMessages if it is parked, and that
\* select then takes the case of readErrCh.
ReaderReturn(s, err) ==
    /\ Len(readErrCh[s].buf) < 1
    /\ readErrCh' = [readErrCh EXCEPT ![s] = [buf |-> Append(@.buf, err), closed |-> TRUE]]
    /\ reader' = [reader EXCEPT ![s] = "exit"]
    /\ sup' = [k \in Contexts |->
                 IF sup[k].sess = s /\ sup[k].pc = "parked"
                 THEN [sup[k] EXCEPT !.pc = "readErrCh"]
                 ELSE sup[k]]

\* The select of the reader: ctx.Done() if the context is cancelled, the
\* default branch otherwise.
ReaderSelect(s) ==
    /\ reader[s] = "select"
    /\ IF ctxDone[conn[s].ctx]
       THEN ReaderReturn(s, "context canceled")
       ELSE /\ reader' = [reader EXCEPT ![s] = "read"]
            /\ UNCHANGED <<readErrCh, sup>>
    /\ UNCHANGED <<loaded, config, cancel, ctxDone, returned, conn, call, worker,
                   requests, nframes, limit>>

\* conn.ReadMessage() returns a frame.  A frame that does not decode is
\* skipped; a decoded one goes to sendMessage with the webhooks p.config has
\* at this moment.
ReaderMessage(s) ==
    /\ reader[s] = "read"
    /\ conn[s].state = "open"
    /\ conn[s].inbox # <<>>
    /\ conn' = [conn EXCEPT ![s].inbox = Tail(@)]
    /\ LET d == Decode(Head(conn[s].inbox))
       IN  IF d.ok
           THEN /\ StartCall(s, conn[s].ctx, d.msg, config.WebHooks)
                /\ reader' = [reader EXCEPT ![s] = "send"]
           ELSE /\ reader' = [reader EXCEPT ![s] = "select"]
                /\ UNCHANGED <<call, worker>>
    /\ UNCHANGED <<loaded, config, cancel, ctxDone, returned, sup, readErrCh, requests, nframes, limit>>

\* conn.ReadMessage() fails: the connection was closed on this side, or the
\* server closed the stream and everything it sent has been read.
ReaderReadError(s) ==
    /\ reader[s] = "read"
    /\ \/ conn[s].state = "closed"
       \/ conn[s].peer = "closed" /\ conn[s].inbox = <<>>
    /\ ReaderReturn(s, "read message error")
    /\ UNCHANGED <<loaded, config, cancel, ctxDone, returned, conn, call, worker,
                   requests, nframes, limit>>

ReaderSentFatal(s) ==
    /\ reader[s] = "send"
    /\ AllDone(s)
    /\ call' = [call EXCEPT ![s].state = "returned"]
    /\ IF call[s].errors # <<>>
       THEN ReaderReturn(s, "failed to send message")
       ELSE /\ reader' = [reader EXCEPT ![s] = "select"]
            /\ UNCHANGED <<readErrCh, sup>>
    /\ UNCHANGED <<loaded, config, cancel, ctxDone, returned, conn, worker,
                   requests, nframes, limit>>

ReaderSentNoWait(s) ==
    /\ reader[s] = "send"
    /\ call[s].state = "running"
    /\ call' = [call EXCEPT ![s].state = "returned"]
    /\ reader' = [reader EXCEPT ![s] = "select"]
    /\ UNCHANGED <<loaded, config, cancel, ctxDone, returned, sup, conn, readErrCh, worker,
                   requests, nframes, limit>>

\* sendMessage returns after wg.Wait(); its errors are logged.
ReaderSent(s) ==
    /\ reader[s] = "send"
    /\ AllDone(s)
    /\ call' = [call EXCEPT ![s].state = "returned"]
    /\ reader' = [reader EXCEPT ![s] = "select"]
    /\ UNCHANGED <<loaded, config, cancel, ctxDone, returned, sup, conn, readErrCh, worker,
                   requests, nframes, limit>>

\* ------------------------------------------------------------------------
\* ValidateAndSetConfig
\* ------------------------------------------------------------------------
SetHeaderOnly(header, name, value) == name :> value

\* webhook.Header[name] = value, on a map that may be nil.
SetHeader(header, name, value) ==
    [n \in DOMAIN header \cup {name} |-> IF n = name THEN value ELSE header[n]]

ValidateLoopSkip(webhooks, i, validWebhooks) ==
    [err |-> "",
     webhooks |-> webhooks,
     validWebhooks |-> SelectSeq(webhooks,
                          LAMBDA w : LET u == urlParse(w.Url)
                                     IN  u.err = "" /\ u.Scheme # <<>> /\ u.Host # <<>>)]

\* The loop over p.config.WebHooks from webhook i on.  The webhooks are
\* pointers: what the loop sets is set in the configuration it was given.
RECURSIVE ValidateLoop(_, _, _)
ValidateLoop(webhooks, i, validWebhooks) ==
    IF i > Len(webhooks)
    THEN [err |-> "", webhooks |-> webhooks, validWebhooks |-> validWebhooks]
    ELSE LET m == IF webhooks[i].Method = <<>>
                  THEN [webhooks[i] EXCEPT !.Method = POST]
                  ELSE webhooks[i]
             parsedURL == urlParse(m.Url)
             h == IF "Content-Type" \in DOMAIN m.Header
                  THEN m
                  ELSE [m EXCEPT !.Header = SetHeader(@, "Content-Type", "text/plain")]
         IN  IF parsedURL.err # "" \/ parsedURL.Scheme = <<>> \/ parsedURL.Host = <<>>
             THEN [err |-> "invalid webhook URL",
                   webhooks |-> [webhooks EXCEPT ![i] = m],
                   validWebhooks |-> validWebhooks]
             ELSE ValidateLoop([webhooks EXCEPT ![i] = h], i + 1, Append(validWebhooks, h))

\* p.config is the configuration of the host from the first statement on; its
\* list of webhooks is replaced only when no URL was refused.
ValidateAndSetConfig ==
    LET r == ValidateLoop(loaded.WebHooks, 1, <<>>)
    IN  /\ config' = [HostServer |-> loaded.HostServer,
                      WebHooks |-> IF r.err = "" THEN r.validWebhooks ELSE r.webhooks]
        /\ returned' = [op |-> "ValidateAndSetConfig", err |-> r.err]
        /\ UNCHANGED <<loaded, cancel, ctxDone, sup, conn, reader, readErrCh, call, worker,
                       requests, nframes, limit>>

\* ------------------------------------------------------------------------
\* Enable, Disable and the goroutine of Enable
\* ------------------------------------------------------------------------
\* The contexts made so far.
Enabled == {k \in Contexts : sup[k].pc # "none"}

\* The sessions dialled so far.
Dialled == {s \in Sessions : conn[s].state # "none"}

Enable ==
    /\ Cardinality(Enabled) < limit.enables
    /\ IF Len(config.HostServer) < 1
       THEN /\ returned' = [op |-> "Enable", err |-> "please enter the correct web server"]
            /\ UNCHANGED <<cancel, sup>>
       ELSE LET k == Cardinality(Enabled) + 1
            IN  /\ cancel' = k
                /\ sup' = [sup EXCEPT ![k].pc = "select"]
                /\ returned' = [op |-> "Enable", err |-> ""]
    /\ UNCHANGED <<loaded, config, ctxDone, conn, reader, readErrCh, call, worker,
                   requests, nframes, limit>>

\* close(done) of the context wakes the select of receiveMessages if it is
\* parked, and that select then takes the case ctx.Done().
Cancelled(k) ==
    /\ ctxDone' = [ctxDone EXCEPT ![k] = TRUE]
    /\ sup' = [sup EXCEPT ![k].pc = IF @ = "parked" THEN "ctx.Done" ELSE @]

DisableWrong ==
    /\ IF cancel = 0 \/ ctxDone[cancel]
       THEN /\ returned' = [op |-> "Disable", err |-> "panic"]
            /\ UNCHANGED <<ctxDone, sup>>
       ELSE /\ Cancelled(cancel)
            /\ returned' = [op |-> "Disable", err |-> ""]
    /\ UNCHANGED <<loaded, config, cancel, conn, reader, readErrCh, call, worker,
                   requests, nframes, limit>>

Disable ==
    /\ IF cancel # 0
       THEN Cancelled(cancel)
       ELSE UNCHANGED <<ctxDone, sup>>
    /\ returned' = [op |-> "Disable", err |-> ""]
    /\ UNCHANGED <<loaded, config, cancel, conn, reader, readErrCh, call, worker,
                   requests, nframes, limit>>

SupervisorSelectNoCheck(k) ==
    /\ sup[k].pc = "select"
    /\ sup' = [sup EXCEPT ![k].pc = "dial"]
    /\ UNCHANGED <<loaded, config, cancel, ctxDone, returned, conn, reader, readErrCh, call,
                   worker, requests, nframes, limit>>

\* The select at the top of the loop of the goroutine.
SupervisorSelect(k) ==
    /\ sup[k].pc = "select"
    /\ sup' = [sup EXCEPT ![k].pc = IF ctxDone[k] THEN "done" ELSE "dial"]
    /\ UNCHANGED <<loaded, config, cancel, ctxDone, returned, conn, reader, readErrCh, call,
                   worker, requests, nframes, limit>>

AfterReceiveHeartbeatStop(k, err) ==
    [sup[k] EXCEPT !.pc = IF err \in {"nil", "context canceled",
                                      "write heartbeat message error"}
                          THEN "done" ELSE "sleep"]

AfterReceiveStop(k, err) ==
    [sup[k] EXCEPT !.pc = IF err \in {"nil", "context canceled", "read message error"}
                          THEN "done" ELSE "sleep"]

\* What the goroutine does with the value receiveMessages returned.
AfterReceive(k, err) ==
    [sup[k] EXCEPT !.pc = IF err \in {"nil", "context canceled"} THEN "done" ELSE "sleep"]

\* websocket.DefaultDialer.Dial fails.
DialError(k) ==
    /\ sup[k].pc = "dial"
    /\ sup' = [sup EXCEPT ![k] = AfterReceive(k, "dial error")]
    /\ UNCHANGED <<loaded, config, cancel, ctxDone, returned, conn, reader, readErrCh, call,
                   worker, requests, nframes, limit>>

\* The dial succeeds: the session starts with its reader goroutine.
\* ctxAtDial and hooksAtDial are not in the code: they keep what the context
\* and p.config.WebHooks were when the connection was made.
Dial(k) ==
    /\ sup[k].pc = "dial"
    /\ Cardinality(Dialled) < limit.sessions
    /\ LET s == Cardinality(Dialled) + 1
       IN  /\ conn' = [conn EXCEPT ![s] =
                          [state |-> "open", ctx |-> k, peer |-> "open", inbox |-> <<>>,
                           out |-> <<>>, ret |-> "", tick |-> FALSE, ticks |-> 0,
                           ctxAtDial |-> ctxDone[k], hooksAtDial |-> config.WebHooks]]
           /\ reader' = [reader EXCEPT ![s] = "select"]
           /\ sup' = [sup EXCEPT ![k].pc = "loop", ![k].sess = s]
    /\ UNCHANGED <<loaded, config, cancel, ctxDone, returned, readErrCh, call, worker,
                   requests, nframes, limit>>

\* receiveMessages returns err: the deferred conn.Close(), then the goroutine
\* of Enable goes on with err.
Return(k, err, frames) ==
    LET s == sup[k].sess
    IN  /\ conn' = [conn EXCEPT ![s].state = "closed", ![s].ret = err,
                                ![s].out = @ \o frames,
                                ![s].inbox = <<>>, ![s].peer = "closed",
                                ![s].tick = FALSE]
        /\ sup' = [sup EXCEPT ![k] = AfterReceive(k, err)]

\* The select of receiveMessages can take case c: it is about to look at its
\* cases and c is ready, or it was parked and c woke it.
CanTake(k, c, ready) ==
    /\ sup[k].pc \in {"loop", c}
    /\ sup[k].pc = "loop" => ready

Readable(ch) == ch.buf # <<>> \/ ch.closed

\* case <-ctx.Done(): the close frame is written.
LoopDone(k) ==
    /\ CanTake(k, "ctx.Done", ctxDone[k])
    /\ Return(k, "nil", <<"close">>)
    /\ UNCHANGED <<loaded, config, cancel, ctxDone, returned, reader, readErrCh, call, worker,
                   requests, nframes, limit>>

\* case <-ctx.Done(): writing the close frame fails.
LoopDoneWriteError(k) ==
    /\ CanTake(k, "ctx.Done", ctxDone[k])
    /\ Return(k, "write close message error", <<>>)
    /\ UNCHANGED <<loaded, config, cancel, ctxDone, returned, reader, readErrCh, call, worker,
                   requests, nframes, limit>>

\* case err := <-readErrCh: the value in the channel, nil from a closed and
\* empty channel.
LoopReadErr(k) ==
    LET ch == readErrCh[sup[k].sess]
    IN  /\ CanTake(k, "readErrCh", Readable(ch))
        /\ IF ch.buf # <<>>
           THEN /\ Return(k, Head(ch.buf), <<>>)
                /\ readErrCh' = [readErrCh EXCEPT ![sup[k].sess].buf = Tail(@)]
           ELSE /\ Return(k, "nil", <<>>)
                /\ UNCHANGED readErrCh
        /\ UNCHANGED <<loaded, config, cancel, ctxDone, returned, reader, call, worker,
                       requests, nframes, limit>>

\* case t := <-ticker.C: the heartbeat is written.
LoopTick(k) ==
    /\ CanTake(k, "ticker.C", conn[sup[k].sess].tick)
    /\ conn' = [conn EXCEPT ![sup[k].sess].out = Append(@, "heartbeat"),
                            ![sup[k].sess].tick = FALSE]
    /\ sup' = [sup EXCEPT ![k].pc = "loop"]
    /\ UNCHANGED <<loaded, config, cancel, ctxDone, returned, reader, readErrCh, call,
                   worker, requests, nframes, limit>>

\* case t := <-ticker.C: writing the heartbeat fails.
LoopTickWriteError(k) ==
    /\ CanTake(k, "ticker.C", conn[sup[k].sess].tick)
    /\ Return(k, "write heartbeat message error", <<>>)
    /\ UNCHANGED <<loaded, config, cancel, ctxDone, returned, reader, readErrCh, call, worker,
                   requests, nframes, limit>>

\* No case is ready: the select parks the goroutine.
LoopPark(k) ==
    /\ sup[k].pc = "loop"
    /\ ~ctxDone[k]
    /\ ~Readable(readErrCh[sup[k].sess])
    /\ ~conn[sup[k].sess].tick
    /\ sup' = [sup EXCEPT ![k].pc = "parked"]
    /\ UNCHANGED <<loaded, config, cancel, ctxDone, returned, conn, reader, readErrCh, call,
                   worker, requests, nframes, limit>>

\* The ticker fires: a parked select takes the case of ticker.C, otherwise
\* the tick waits in the channel, which holds one.
Tick(s) ==
    /\ conn[s].state = "open"
    /\ conn[s].ticks < limit.beats
    /\ IF \E k \in Contexts : sup[k].sess = s /\ sup[k].pc = "parked"
       THEN /\ sup' = [k \in Contexts |->
                         IF sup[k].sess = s /\ sup[k].pc = "parked"
                         THEN [sup[k] EXCEPT !.pc = "ticker.C"]
                         ELSE sup[k]]
            /\ conn' = [conn EXCEPT ![s].ticks = @ + 1]
       ELSE /\ conn' = [conn EXCEPT ![s].ticks = @ + 1, ![s].tick = TRUE]
            /\ UNCHANGED sup
    /\ UNCHANGED <<loaded, config, cancel, ctxDone, returned, reader, readErrCh, call, worker,
                   requests, nframes, limit>>

\* time.Sleep(time.Second) is over.
Slept(k) ==
    /\ sup[k].pc = "sleep"
    /\ sup' = [sup EXCEPT ![k].pc = "select"]
    /\ UNCHANGED <<loaded, config, cancel, ctxDone, returned, conn, reader, readErrCh, call,
                   worker, requests, nframes, limit>>

\* ------------------------------------------------------------------------
\* The gotify server
\* ------------------------------------------------------------------------
Frames(id) ==
    {[kind |-> "event", id |-> id, app |-> a, title |-> <<"t">>, message |-> <<"m">>] :
        a \in {1, 2}}
        \cup {[kind |-> k, id |-> id, app |-> 0, title |-> <<>>, message |-> <<>>] :
                 k \in {"null", "text"}}

ServerSend(s) ==
    /\ conn[s].state = "open"
    /\ conn[s].peer = "open"
    /\ nframes < limit.frames
    /\ nframes' = nframes + 1
    /\ \E f \in Frames(nframes + 1) : conn' = [conn EXCEPT ![s].inbox = Append(@, f)]
    /\ UNCHANGED <<loaded, config, cancel, ctxDone, returned, sup, reader, readErrCh, call,
                   worker, requests, limit>>

\* The server closes the stream, or the network breaks.
ServerClose(s) ==
    /\ conn[s].state = "open"
    /\ conn[s].peer = "open"
    /\ conn' = [conn EXCEPT ![s].peer = "closed"]
    /\ UNCHANGED <<loaded, config, cancel, ctxDone, returned, sup, reader, readErrCh, call,
                   worker, requests, nframes, limit>>

\* ------------------------------------------------------------------------
\* Configurations and the specifications
\* ------------------------------------------------------------------------
WS == <<"w", "s", ":", "/", "/", "a">>
UrlA == <<"h", "t", "t", "p", ":", "/", "/", "a">>
UrlB == <<"h", "t", "t", "p", ":", "/", "/", "b">>
UrlNoScheme == <<"a">>

BodyText == <<"{{.title}}", " ", "{{.message}}">>
BodyJSON == <<"{", Q, "m", Q, ":", Q, "{{.message}}", Q, "}">>
BodyUnclosed == <<"{{">>

TextPlain == "Content-Type" :> "text/plain"

WebHook(url, method, body, apps) ==
    [Url |-> url, Method |-> method, Body |-> body, Header |-> TextPlain, Apps |-> apps]

\* The webhooks sendMessage is tried on.
WebHooks ==
    { WebHook(UrlA, POST, BodyText, {}),
      WebHook(UrlB, POST, BodyJSON, {1}),
      WebHook(UrlA, POST, BodyText, {2}),
      WebHook(UrlB, POST, BodyUnclosed, {}),
      WebHook(UrlNoScheme, POST, BodyText, {}),
      WebHook(UrlA, <<"P", " ", "T">>, BodyText, {1, 2}) }

RECURSIVE Lists(_, _)
Lists(S, n) ==
    IF n = 0 THEN {<<>>}
    ELSE Lists(S, n - 1) \cup {Append(l, x) : l \in Lists(S, n - 1), x \in S}

ZeroMessage == [ID |-> 0, ApplicationID |-> 0, Title |-> <<>>, Message |-> <<>>]

NoSupervisor == [pc |-> "none", sess |-> 0]
NoConn == [state |-> "none", ctx |-> 0, peer |-> "closed", inbox |-> <<>>, out |-> <<>>,
           ret |-> "", tick |-> FALSE, ticks |-> 0, ctxAtDial |-> FALSE, hooksAtDial |-> <<>>]
NoChannel == [buf |-> <<>>, closed |-> FALSE]
NoCall == [state |-> "none", ctx |-> 0, msg |-> ZeroMessage, webhooks |-> <<>>,
           errors |-> <<>>, mu |-> 0, ctxAtCall |-> FALSE]

\* A new plugin instance that has its configuration.
Init ==
    /\ config \in
          { [HostServer |-> WS, WebHooks |-> <<>>],
            [HostServer |-> WS,
             WebHooks |-> <<WebHook(UrlA, POST, BodyText, {1})>>],
            [HostServer |-> <<>>, WebHooks |-> <<>>] }
    /\ loaded = config
    /\ cancel = 0
    /\ ctxDone = [k \in Contexts |-> FALSE]
    /\ returned = [op |-> "", err |-> ""]
    /\ sup = [k \in Contexts |-> NoSupervisor]
    /\ conn = [s \in Sessions |-> NoConn]
    /\ reader = [s \in Sessions |-> "none"]
    /\ readErrCh = [s \in Sessions |-> NoChannel]
    /\ call = [s \in Sessions |-> NoCall]
    /\ worker = [s \in Sessions |-> <<>>]
    /\ requests = {}
    /\ nframes = 0
    /\ limit = [enables |-> MaxEnable, sessions |-> MaxSessions, frames |-> MaxFrames,
                beats |-> MaxBeats]

Worker(s, i) ==
    \/ WorkerPrepare(s, i)
    \/ WorkerSend(s, i)
    \/ WorkerResponse(s, i)
    \/ WorkerTransportError(s, i)
    \/ WorkerLock(s, i)
    \/ WorkerAppend(s, i)

Reader(s) ==
    \/ ReaderSelect(s)
    \/ ReaderMessage(s)
    \/ ReaderReadError(s)
    \/ ReaderSent(s)

Supervisor(k) ==
    \/ SupervisorSelect(k)
    \/ Dial(k)
    \/ DialError(k)
    \/ LoopDone(k)
    \/ LoopDoneWriteError(k)
    \/ LoopReadErr(k)
    \/ LoopTick(k)
    \/ LoopTickWriteError(k)
    \/ LoopPark(k)
    \/ Slept(k)

Server(s) == ServerSend(s) \/ ServerClose(s)

Next ==
    \/ Enable
    \/ Disable
    \/ \E k \in Contexts : Supervisor(k)
    \/ \E s \in Sessions : Reader(s) \/ Server(s) \/ Tick(s)
    \/ \E s \in Sessions, i \in 1..MaxHooks : Worker(s, i)

Spec == Init /\ [][Next]_vars

\* One sendMessage call on its own: session 1 is connected, its reader has
\* decoded msg and called sendMessage(ctx, msg, p.config.WebHooks); Disable may
\* cancel the context before or during the call.
InitSend ==
    /\ \E webhooks \in Lists(WebHooks, MaxHooks), app \in {1, 2} :
          /\ config = [HostServer |-> WS, WebHooks |-> webhooks]
          /\ \E done \in BOOLEAN :
                /\ ctxDone = [k \in Contexts |-> k = 1 /\ done]
                /\ call = [s \in Sessions |->
                             IF s = 1
                             THEN [state |-> "running", ctx |-> 1,
                                   msg |-> [ID |-> 1, ApplicationID |-> app,
                                            Title |-> <<"t">>, Message |-> <<"m">>],
                                   webhooks |-> webhooks, errors |-> <<>>, mu |-> 0,
                                   ctxAtCall |-> done]
                             ELSE NoCall]
          /\ worker = [s \in Sessions |->
                         IF s = 1
                         THEN [i \in DOMAIN webhooks |-> [pc |-> "start", err |-> NoError]]
                         ELSE <<>>]
    /\ loaded = config
    /\ cancel = 1
    /\ returned = [op |-> "Enable", err |-> ""]
    /\ sup = [k \in Contexts |->
                IF k = 1 THEN [pc |-> "loop", sess |-> 1] ELSE NoSupervisor]
    /\ conn = [s \in Sessions |->
                 IF s = 1
                 THEN [NoConn EXCEPT !.state = "open", !.ctx = 1, !.peer = "open"]
                 ELSE NoConn]
    /\ reader = [s \in Sessions |-> IF s = 1 THEN "send" ELSE "none"]
    /\ readErrCh = [s \in Sessions |-> NoChannel]
    /\ requests = {}
    /\ nframes = 1
    /\ limit = [enables |-> 1, sessions |-> 1, frames |-> 1, beats |-> 0]

NextSend ==
    \/ Disable
    \/ \E i \in 1..MaxHooks : Worker(1, i)
    \/ ReaderSent(1)

SpecSend == InitSend /\ [][NextSend]_vars

\* The goroutines get their turn, a dial and a sleep come to an end, and the
\* select of receiveMessages, which picks among its ready cases at random,
\* does not leave out the case of ctx.Done() for ever.
Fairness ==
    /\ \A k \in Contexts :
          /\ WF_vars(SupervisorSelect(k))
          /\ WF_vars(Dial(k) \/ DialError(k))
          /\ WF_vars(LoopDone(k) \/ LoopDoneWriteError(k))
          /\ WF_vars(LoopReadErr(k))
          /\ WF_vars(LoopTick(k) \/ LoopTickWriteError(k))
          /\ WF_vars(Slept(k))
    /\ \A s \in Sessions : WF_vars(Reader(s))
    /\ \A s \in Sessions, i \in 1..MaxHooks : WF_vars(Worker(s, i))

FairSpec == Spec /\ Fairness

\* ValidateAndSetConfig on its own: a new plugin instance, p.config not set
\* yet, and the configuration the host has read.
HeaderSamples ==
    { <<>>, TextPlain, "Content-Type" :> "application/json", "X-Token" :> "a",
      "content-type" :> "application/json" }

UrlSamples ==
    { UrlA, WS, UrlNoScheme, <<>>, <<":", "a">>,
      <<"h", "t", "t", "p", ":", "/", "/">>, <<"/", "/", "a">>,
      <<"h", "t", "t", "p", ":", "/", "/", "a", " ">> }

LoadedWebHooks ==
    {[Url |-> u, Method |-> m, Body |-> BodyText, Header |-> h, Apps |-> {}] :
        u \in UrlSamples, m \in {<<>>, <<"G", "E", "T">>}, h \in HeaderSamples}

InitValidate ==
    /\ loaded \in {[HostServer |-> WS, WebHooks |-> l] : l \in Lists(LoadedWebHooks, MaxHooks)}
    /\ config = [HostServer |-> <<>>, WebHooks |-> <<>>]
    /\ cancel = 0
    /\ ctxDone = [k \in Contexts |-> FALSE]
    /\ returned = [op |-> "", err |-> ""]
    /\ sup = [k \in Contexts |-> NoSupervisor]
    /\ conn = [s \in Sessions |-> NoConn]
    /\ reader = [s \in Sessions |-> "none"]
    /\ readErrCh = [s \in Sessions |-> NoChannel]
    /\ call = [s \in Sessions |-> NoCall]
    /\ worker = [s \in Sessions |-> <<>>]
    /\ requests = {}
    /\ nframes = 0
    /\ limit = [enables |-> 0, sessions |-> 0, frames |-> 0, beats |-> 0]

SpecValidate == InitValidate /\ [][ValidateAndSetConfig]_vars

\* The bodies processWebhookBody is tried on: plain text and structured
\* templates, with nested maps and arrays, with templates that do not parse
\* or do not execute.
BodyFunctions == <<"{{title}}", " ", "-", " ", "{{message}}">>
BodyFields == <<"{{.title}}", " ", "-", " ", "{{.message}}">>
BodyNestedArray ==
    <<"{", Q, "a", Q, ":", "[", "[", Q, "{{.title}}", Q, "]", "]", "}">>
BodyMixedArray ==
    <<"{", Q, "a", Q, ":", "[", "{", Q, "k", Q, ":", Q, "{{.title}}", Q, "}", ",", Q,
      "{{.message}}", Q, ",", "1", ",", "true", ",", "null", "]", "}">>
BodyMasked ==
    <<"{", Q, "a", Q, ":", "[", Q, "{{", Q, ",", Q, "{{.title}}", Q, "]", "}">>
BodyMaskedMap ==
    <<"{", Q, "a", Q, ":", "[", "{", Q, "k", Q, ":", Q, "{{", Q, "}", ",", Q, "{{.title}}",
      Q, "]", "}">>
BodyArrayError == <<"{", Q, "a", Q, ":", "[", Q, "{{.title}}", Q, ",", Q, "{{", Q, "]", "}">>
BodyTopArray == <<"[", Q, "{{.message}}", Q, "]">>
BodyTopString == <<Q, "{{.message}}", Q>>
BodyNull == <<"null">>
BodyNestedMap ==
    <<"{", Q, "a", Q, ":", "{", Q, "b", Q, ":", Q, "{{.title}}", Q, ",", Q, "n", Q, ":",
      "null", "}", ",", Q, "k", Q, ":", "1", "}">>
BodyNestedMapError ==
    <<"{", Q, "a", Q, ":", "{", Q, "b", Q, ":", Q, "{{", Q, "}", "}">>
BodyOther == <<"{", Q, "k", Q, ":", Q, "{{.other}}", Q, "}">>
BodyOtherText == <<"{{.other}}", " ", "a">>
BodyChain == <<"{{.title.x}}">>
BodyKey == <<"{", Q, "{{.title}}", Q, ":", Q, "v", Q, "}">>
BodySpaced == <<"{", " ", Q, "k", Q, " ", ":", NL, "1", " ", "}">>
BodyP4 ==
    <<"{", Q, "t", Q, ":", Q, "{{.title}}", Q, ",", Q, "m", Q, ":", "[", Q, "{{.message}}",
      Q, "]", "}">>

Bodies ==
    { BodyText, BodyJSON, BodyUnclosed, BodyFunctions, BodyFields, BodyNestedArray, BodyMixedArray,
      BodyMasked, BodyMaskedMap, BodyArrayError, BodyTopArray,
      BodyTopString, BodyNull, BodyNestedMap, BodyNestedMapError,
      BodyOther, BodyOtherText, BodyChain, BodyKey,
      BodySpaced, BodyP4 }

\* Titles and messages: plain, with a quote, a JSON text, a newline and a
\* backslash, the text of a template action.
Titles == { <<"t">>, <<Q, "t">> }

Messages ==
    { <<"m">>, <<"{", Q, "k", Q, ":", Q, "v", Q, "}">>, <<"a", NL, BS>>, <<"{{.title}}">> }

\* One sendMessage call with one webhook, its body one of Bodies, the context
\* not cancelled when the call starts.
InitBody ==
    /\ \E body \in Bodies, title \in Titles, message \in Messages :
          /\ config = [HostServer |-> WS, WebHooks |-> <<WebHook(UrlA, POST, body, {})>>]
          /\ call = [s \in Sessions |->
                       IF s = 1
                       THEN [state |-> "running", ctx |-> 1,
                             msg |-> [ID |-> 1, ApplicationID |-> 1,
                                      Title |-> title, Message |-> message],
                             webhooks |-> config.WebHooks, errors |-> <<>>, mu |-> 0,
                             ctxAtCall |-> FALSE]
                       ELSE NoCall]
    /\ worker = [s \in Sessions |->
                   IF s = 1 THEN <<[pc |-> "start", err |-> NoError]>> ELSE <<>>]
    /\ ctxDone = [k \in Contexts |-> FALSE]
    /\ loaded = config
    /\ cancel = 1
    /\ returned = [op |-> "Enable", err |-> ""]
    /\ sup = [k \in Contexts |->
                IF k = 1 THEN [pc |-> "loop", sess |-> 1] ELSE NoSupervisor]
    /\ conn = [s \in Sessions |->
                 IF s = 1
                 THEN [NoConn EXCEPT !.state = "open", !.ctx = 1, !.peer = "open"]
                 ELSE NoConn]
    /\ reader = [s \in Sessions |-> IF s = 1 THEN "send" ELSE "none"]
    /\ readErrCh = [s \in Sessions |-> NoChannel]
    /\ requests = {}
    /\ nframes = 1
    /\ limit = [enables |-> 1, sessions |-> 1, frames |-> 1, beats |-> 0]

SpecBody == InitBody /\ [][NextSend]_vars

\* The host changes the configuration of a plugin instance that has an
\* accepted configuration: ValidateAndSetConfig gets one of the Reloaded
\* configurations, before Enable, during a session or after it.
BodyTitle == <<"{{.title}}">>

Reloaded ==
    { [HostServer |-> WS,
       WebHooks |-> <<[Url |-> UrlB, Method |-> <<>>, Body |-> BodyTitle, Header |-> <<>>,
                       Apps |-> {}],
                      [Url |-> UrlNoScheme, Method |-> <<>>, Body |-> BodyTitle,
                       Header |-> <<>>, Apps |-> {}]>>],
      [HostServer |-> <<>>,
       WebHooks |-> <<[Url |-> <<>>, Method |-> <<>>, Body |-> BodyTitle, Header |-> <<>>,
                       Apps |-> {}]>>],
      [HostServer |-> WS,
       WebHooks |-> <<[Url |-> UrlB, Method |-> <<>>, Body |-> BodyTitle, Header |-> <<>>,
                       Apps |-> {}]>>] }

InitReconfigure ==
    /\ config = [HostServer |-> WS, WebHooks |-> <<WebHook(UrlA, POST, BodyText, {})>>]
    /\ loaded \in Reloaded
    /\ cancel = 0
    /\ ctxDone = [k \in Contexts |-> FALSE]
    /\ returned = [op |-> "", err |-> ""]
    /\ sup = [k \in Contexts |-> NoSupervisor]
    /\ conn = [s \in Sessions |-> NoConn]
    /\ reader = [s \in Sessions |-> "none"]
    /\ readErrCh = [s \in Sessions |-> NoChannel]
    /\ call = [s \in Sessions |-> NoCall]
    /\ worker = [s \in Sessions |-> <<>>]
    /\ requests = {}
    /\ nframes = 0
    /\ limit = [enables |-> 1, sessions |-> 1, frames |-> 1, beats |-> 1]

NextReconfigure == ValidateAndSetConfig \/ Next

SpecReconfigure == InitReconfigure /\ [][NextReconfigure]_vars

\* A stream of frames: a new plugin instance whose session reads up to
\* MaxStream frames, with a webhook whose body does not parse in front of one
\* that takes every message, or with one webhook that takes application 1.
MaxStream == 2

Streamed ==
    { [HostServer |-> WS,
       WebHooks |-> <<WebHook(UrlB, POST, BodyUnclosed, {}),
                      WebHook(UrlA, POST, BodyText, {})>>],
      [HostServer |-> WS,
       WebHooks |-> <<WebHook(UrlA, POST, BodyText, {1})>>] }

InitStream ==
    /\ config \in Streamed
    /\ loaded = config
    /\ cancel = 0
    /\ ctxDone = [k \in Contexts |-> FALSE]
    /\ returned = [op |-> "", err |-> ""]
    /\ sup = [k \in Contexts |-> NoSupervisor]
    /\ conn = [s \in Sessions |-> NoConn]
    /\ reader = [s \in Sessions |-> "none"]
    /\ readErrCh = [s \in Sessions |-> NoChannel]
    /\ call = [s \in Sessions |-> NoCall]
    /\ worker = [s \in Sessions |-> <<>>]
    /\ requests = {}
    /\ nframes = 0
    /\ limit = [enables |-> 1, sessions |-> 1, frames |-> MaxStream, beats |-> 1]

SpecStream == InitStream /\ [][Next]_vars

\* Enable called more than once on one plugin instance: up to MaxContexts
\* calls, each with its context and its goroutine.
InitTwice ==
    /\ config = [HostServer |-> WS, WebHooks |-> <<WebHook(UrlA, POST, BodyText, {})>>]
    /\ loaded = config
    /\ cancel = 0
    /\ ctxDone = [k \in Contexts |-> FALSE]
    /\ returned = [op |-> "", err |-> ""]
    /\ sup = [k \in Contexts |-> NoSupervisor]
    /\ conn = [s \in Sessions |-> NoConn]
    /\ reader = [s \in Sessions |-> "none"]
    /\ readErrCh = [s \in Sessions |-> NoChannel]
    /\ call = [s \in Sessions |-> NoCall]
    /\ worker = [s \in Sessions |-> <<>>]
    /\ requests = {}
    /\ nframes = 0
    /\ limit = [enables |-> MaxContexts, sessions |-> 1, frames |-> 1, beats |-> 1]

SpecTwice == InitTwice /\ [][Next]_vars

\* A session that ends and the one that follows it: the plugin is enabled,
\* session 1 is connected and its reader has called sendMessage for the first
\* event, with one webhook that takes every message; up to MaxSessions
\* sessions and MaxStream frames over them.
FirstEvent == [ID |-> 1, ApplicationID |-> 1, Title |-> <<"t">>, Message |-> <<"m">>]

InitReconnect ==
    /\ config = [HostServer |-> WS, WebHooks |-> <<WebHook(UrlA, POST, BodyText, {})>>]
    /\ loaded = config
    /\ cancel = 1
    /\ ctxDone = [k \in Contexts |-> FALSE]
    /\ returned = [op |-> "Enable", err |-> ""]
    /\ sup = [k \in Contexts |->
                IF k = 1 THEN [pc |-> "loop", sess |-> 1] ELSE NoSupervisor]
    /\ conn = [s \in Sessions |->
                 IF s = 1
                 THEN [NoConn EXCEPT !.state = "open", !.ctx = 1, !.peer = "open",
                                     !.hooksAtDial = config.WebHooks]
                 ELSE NoConn]
    /\ reader = [s \in Sessions |-> IF s = 1 THEN "send" ELSE "none"]
    /\ readErrCh = [s \in Sessions |-> NoChannel]
    /\ call = [s \in Sessions |->
                 IF s = 1
                 THEN [state |-> "running", ctx |-> 1, msg |-> FirstEvent,
                       webhooks |-> config.WebHooks, errors |-> <<>>, mu |-> 0,
                       ctxAtCall |-> FALSE]
                 ELSE NoCall]
    /\ worker = [s \in Sessions |->
                   IF s = 1
                   THEN [i \in DOMAIN config.WebHooks |-> [pc |-> "start", err |-> NoError]]
                   ELSE <<>>]
    /\ requests = {}
    /\ nframes = 1
    /\ limit = [enables |-> 1, sessions |-> MaxSessions, frames |-> MaxStream, beats |-> 1]

NextReconnect ==
    \/ Disable
    \/ \E k \in Contexts : Supervisor(k)
    \/ \E s \in Sessions : Reader(s) \/ Server(s) \/ Tick(s)
    \/ \E s \in Sessions, i \in 1..MaxHooks : Worker(s, i)

SpecReconnect == InitReconnect /\ [][NextReconnect]_vars

\* ------------------------------------------------------------------------
\* Properties of sendMessage (SpecSend)
\* ------------------------------------------------------------------------
\* The requests of call s that went out to webhook i.
RequestsOf(s, i) ==
    {r \in requests : r.sess = s /\ r.id = call[s].msg.ID /\ r.hook = i}

\* The errors of call s that the goroutine of webhook i appended.
ErrorsOf(s, i) ==
    {n \in DOMAIN call[s].errors : call[s].errors[n].hook = i}

\* Webhook i of call s takes the message: no white list, or the application
\* of the message is on it.
Eligible(s, i) ==
    \/ call[s].webhooks[i].Apps = {}
    \/ \E a \in call[s].webhooks[i].Apps : a = call[s].msg.ApplicationID

BuildFails(s, i) == processWebhookBody(call[s].webhooks[i].Body, call[s].msg).err # ""

\* A request to webhook i can go out: the method is a token and the URL an
\* http or https URL with a host.
Sendable(s, i) ==
    LET w == call[s].webhooks[i]
    IN  /\ w.Method = <<>> \/ validMethod(w.Method)
        /\ urlParse(w.Url).err = ""
        /\ urlParse(w.Url).Scheme \in {HTTP, HTTPS}
        /\ urlParse(w.Url).Host # <<>>

\* The request to webhook i broke, or the answer was not a 2xx.
DeliveryFails(s, i) ==
    \E r \in RequestsOf(s, i) :
        r.result = "failed" \/ (r.result = "answered" /\ r.status \notin 200..299)

Delivered(s, i) ==
    \E r \in RequestsOf(s, i) : r.result = "answered" /\ r.status \in 200..299

\* sendMessage has returned and its context was never cancelled.
ReturnedUncancelled(s) == call[s].state = "returned" /\ ~ctxDone[call[s].ctx]

\* C1: fan-out independence.  When sendMessage returns and its context is not
\* cancelled, every webhook has had its own attempt whatever became of the
\* others: an eligible webhook whose body builds and whose request can go out
\* got exactly one request, and the returned errors hold exactly one error,
\* with the URL of the webhook, for each eligible webhook that failed (body,
\* request or status) and none for the others.
C1_FanOutIndependence ==
    \A s \in Sessions : ReturnedUncancelled(s) =>
        \A i \in DOMAIN call[s].webhooks :
            LET fails == Eligible(s, i)
                            /\ (BuildFails(s, i) \/ ~Sendable(s, i) \/ DeliveryFails(s, i))
            IN  /\ Cardinality(ErrorsOf(s, i)) = IF fails THEN 1 ELSE 0
                /\ \A n \in ErrorsOf(s, i) :
                      /\ call[s].errors[n].wrapped
                      /\ call[s].errors[n].url = call[s].webhooks[i].Url
                /\ Cardinality(RequestsOf(s, i)) =
                      IF Eligible(s, i) /\ ~BuildFails(s, i) /\ Sendable(s, i) THEN 1 ELSE 0
                /\ Len(call[s].errors) =
                      Cardinality({j \in DOMAIN call[s].webhooks : ErrorsOf(s, j) # {}})

\* A fails, B succeeds: one error, for A, and one delivered request to B.
C1_Witness ==
    \E s \in Sessions :
        /\ ReturnedUncancelled(s)
        /\ Len(call[s].webhooks) = 2
        /\ BuildFails(s, 1)
        /\ Len(call[s].errors) = 1
        /\ call[s].errors[1].hook = 1
        /\ Delivered(s, 2)

\* C2: white list.  No request ever goes to a webhook that has a white list
\* without the application of the message on it, whatever the context.
C2_AllowList ==
    \A r \in requests :
        r.webhook.Apps = {} \/ \E a \in r.webhook.Apps : a = r.app

\* A call has returned that left out a webhook and delivered to another.
C2_Witness ==
    \E s \in Sessions :
        /\ call[s].state = "returned"
        /\ \E i, j \in DOMAIN call[s].webhooks :
              /\ ~Eligible(s, i)
              /\ RequestsOf(s, i) = {}
              /\ Delivered(s, j)

\* C3 as claimed: with the context not cancelled and a body that builds, an
\* eligible webhook gets exactly one request.
C3_Claimed ==
    \A s \in Sessions : ReturnedUncancelled(s) =>
        \A i \in DOMAIN call[s].webhooks :
            Eligible(s, i) /\ ~BuildFails(s, i) => Cardinality(RequestsOf(s, i)) = 1

\* C3: with the context not cancelled, a body that builds, a method that is a
\* token and an http or https URL with a host, a webhook with no white list or
\* with the application of the message on it gets exactly one request.
C3_NoFiltering ==
    \A s \in Sessions : ReturnedUncancelled(s) =>
        \A i \in DOMAIN call[s].webhooks :
            Eligible(s, i) /\ ~BuildFails(s, i) /\ Sendable(s, i)
                => Cardinality(RequestsOf(s, i)) = 1

\* One webhook without a white list and one with the application on its
\* list have each got their request.
C3_Witness ==
    \E s \in Sessions :
        /\ ReturnedUncancelled(s)
        /\ \E i, j \in DOMAIN call[s].webhooks :
              /\ call[s].webhooks[i].Apps = {}
              /\ call[s].webhooks[j].Apps # {}
              /\ Cardinality(RequestsOf(s, i)) = 1
              /\ Cardinality(RequestsOf(s, j)) = 1

\* C8 as claimed: sendMessage with a context that is already cancelled returns
\* at least one error and no request is delivered.
C8_Claimed ==
    \A s \in Sessions : call[s].state = "returned" /\ call[s].ctxAtCall =>
        /\ Len(call[s].errors) >= 1
        /\ \A i \in DOMAIN call[s].webhooks : ~Delivered(s, i)

\* C8: sendMessage with a context that is already cancelled and at least one
\* webhook returns at least one error and no request is delivered.
C8_CancelledFanOut ==
    \A s \in Sessions :
        call[s].state = "returned" /\ call[s].ctxAtCall /\ call[s].webhooks # <<>> =>
            /\ Len(call[s].errors) >= 1
            /\ \A i \in DOMAIN call[s].webhooks : ~Delivered(s, i)

\* Such a call has returned, with a webhook that the white list leaves out.
C8_Witness ==
    \E s \in Sessions :
        /\ call[s].state = "returned"
        /\ call[s].ctxAtCall
        /\ Len(call[s].webhooks) = 2
        /\ ~Eligible(s, 1)
        /\ Len(call[s].errors) = 2

\* The errors sendHTTPRequest returned for webhook i of call s.
SendErrors(s, i) ==
    {n \in ErrorsOf(s, i) :
        call[s].errors[n].text \in {"failed to create request", "failed to send request",
                                    "unexpected status code"}}

\* C13: sendHTTPRequest returns nil exactly when the request was sent and
\* answered with a status from 200 to 299; a status below 200 or from 300 on,
\* and a request that could not be made or broke on its way, is one error of
\* that webhook.
C13_SuccessIs2xx ==
    \A s \in Sessions : call[s].state = "returned" =>
        \A i \in DOMAIN call[s].webhooks :
            /\ Cardinality(SendErrors(s, i)) <= 1
            /\ \A r \in RequestsOf(s, i) :
                  /\ r.result # "pending"
                  /\ SendErrors(s, i) = {} <=>
                        (r.result = "answered" /\ 200 <= r.status /\ r.status <= 299)
                  /\ \A n \in SendErrors(s, i) :
                        /\ call[s].errors[n].url = call[s].webhooks[i].Url
                        /\ call[s].errors[n].text =
                              IF r.result = "failed" THEN "failed to send request"
                              ELSE "unexpected status code"
            /\ RequestsOf(s, i) = {} /\ SendErrors(s, i) = {} =>
                  \/ ~Eligible(s, i)
                  \/ BuildFails(s, i)
                  \/ \E n \in ErrorsOf(s, i) : call[s].errors[n].text = "context canceled"

\* Status 299 has counted as delivered and status 300 as an error.
C13_Witness ==
    \E s \in Sessions :
        /\ call[s].state = "returned"
        /\ Len(call[s].webhooks) = 2
        /\ \E r \in RequestsOf(s, 1) : r.result = "answered" /\ r.status = 299
        /\ \E r \in RequestsOf(s, 2) : r.result = "answered" /\ r.status = 300
        /\ SendErrors(s, 1) = {}
        /\ Cardinality(SendErrors(s, 2)) = 1

\* C19 as claimed: a webhook whose white list leaves the message out has no
\* error among those sendMessage returns, whatever the state of the context.
C19_Claimed ==
    \A s \in Sessions : call[s].state = "returned" =>
        \A i \in DOMAIN call[s].webhooks : ~Eligible(s, i) => ErrorsOf(s, i) = {}

\* C19: with the context not cancelled, a webhook whose white list leaves the
\* message out has no error among those sendMessage returns, and sendMessage
\* returns none at all when every webhook is left out; with the context
\* cancelled such a webhook has at most the one error of the context, with no
\* URL on it.
C19_SilentFilter ==
    \A s \in Sessions : call[s].state = "returned" =>
        /\ \A i \in DOMAIN call[s].webhooks : ~Eligible(s, i) =>
              /\ ~ctxDone[call[s].ctx] => ErrorsOf(s, i) = {}
              /\ Cardinality(ErrorsOf(s, i)) <= 1
              /\ \A n \in ErrorsOf(s, i) :
                    /\ call[s].errors[n].text = "context canceled"
                    /\ ~call[s].errors[n].wrapped
        /\ ~ctxDone[call[s].ctx] /\ (\A i \in DOMAIN call[s].webhooks : ~Eligible(s, i))
              => call[s].errors = <<>>

\* Two webhooks, the message on the white list of neither, the context not
\* cancelled: sendMessage has returned no error and no request was made.
C19_Witness ==
    \E s \in Sessions :
        /\ ReturnedUncancelled(s)
        /\ Len(call[s].webhooks) = 2
        /\ ~Eligible(s, 1)
        /\ ~Eligible(s, 2)
        /\ call[s].errors = <<>>
        /\ requests = {}

\* C28 as claimed: every error sendMessage returns carries the URL of the
\* webhook whose goroutine appended it, and a webhook has at most one error.
C28_Claimed ==
    \A s \in Sessions : call[s].state = "returned" =>
        /\ \A n \in DOMAIN call[s].errors :
              /\ call[s].errors[n].wrapped
              /\ call[s].errors[n].url = call[s].webhooks[call[s].errors[n].hook].Url
        /\ \A i \in DOMAIN call[s].webhooks : Cardinality(ErrorsOf(s, i)) <= 1


\* ------------------------------------------------------------------------
\* The message of the call request r belongs to.
MsgOf(r) == call[r.sess].msg

\* The body read as one JSON value of any kind.
FullParse(body) ==
    LET r == ParseValue(body, SkipSpace(body, 1))
    IN  IF r.ok /\ SkipSpace(body, r.next) = Len(body) + 1
        THEN [ok |-> TRUE, v |-> r.v]
        ELSE [ok |-> FALSE, v |-> JNull]

RECURSIVE RenderAll(_, _), AllLeavesRender(_, _), WalkedLeafFails(_, _)

\* The tree with every string leaf rendered once, wherever it is.
RenderAll(v, msg) ==
    CASE v.t = "string" -> JString(processTemplateString(v.s, msg).out)
      [] v.t = "array" -> JArray([i \in DOMAIN v.items |-> RenderAll(v.items[i], msg)])
      [] v.t = "object" ->
            JObject(v.keys, [i \in DOMAIN v.items |-> RenderAll(v.items[i], msg)])
      [] OTHER -> v

\* Every string leaf of the tree is a template that renders.
AllLeavesRender(v, msg) ==
    CASE v.t = "string" -> processTemplateString(v.s, msg).err = ""
      [] v.t \in {"array", "object"} ->
            \A i \in DOMAIN v.items : AllLeavesRender(v.items[i], msg)
      [] OTHER -> TRUE

\* A string leaf that the walk comes to (a value of a map, an item of an
\* array that is a value of a map, at any depth of maps) does not render.
WalkedLeafFails(v, msg) ==
    /\ v.t = "object"
    /\ \E i \in DOMAIN v.items :
          LET x == v.items[i]
          IN  \/ x.t = "string" /\ processTemplateString(x.s, msg).err # ""
              \/ WalkedLeafFails(x, msg)
              \/ /\ x.t = "array"
                 /\ \E j \in DOMAIN x.items :
                       \/ /\ x.items[j].t = "string"
                          /\ processTemplateString(x.items[j].s, msg).err # ""
                       \/ WalkedLeafFails(x.items[j], msg)

\* C15 as claimed: the body sent for a structured template whose string
\* leaves all render is the template's tree with every string leaf rendered
\* once, at any nesting, and everything else as it was.
C15_Claimed ==
    \A r \in requests :
        LET t == Unmarshal(r.webhook.Body)
        IN  t.ok /\ AllLeavesRender(t.v, MsgOf(r)) =>
                r.body = Marshal(RenderAll(t.v, MsgOf(r)))

\* C20 as claimed: no request is made for a structured template when one of
\* the string leaves the walk comes to does not render, wherever that leaf
\* is: in an array as well, before items that do render.
C20_Claimed ==
    \A r \in requests :
        LET t == Unmarshal(r.webhook.Body)
        IN  t.ok => ~WalkedLeafFails(t.v, MsgOf(r))

\* The body as the claim of C16 has it built: any JSON value is walked and
\* written again, anything else is rendered as text.
BuiltFromAnyValue(body, msg) ==
    LET t == FullParse(body)
    IN  IF ~t.ok THEN processTemplateString(body, msg).out
        ELSE CASE t.v.t = "object" -> Marshal(processJSONRecursive(t.v, msg).v)
               [] t.v.t = "array" -> Marshal(JArray(ArrayLoop(t.v.items, 1, "", msg).items))
               [] t.v.t = "string" -> Marshal(JString(processTemplateString(t.v.s, msg).out))
               [] OTHER -> Marshal(t.v)

\* C16 as claimed: a body that is a JSON value of any kind (object, array or
\* scalar) is sent walked and written again as JSON, any other body is sent
\* rendered as text.
C16_Claimed ==
    \A r \in requests : r.body = BuiltFromAnyValue(r.webhook.Body, MsgOf(r))

\* A body that is a JSON array has been sent rendered as text, the quotes of
\* the message not escaped.
C16_Witness ==
    \E r \in requests :
        /\ r.webhook.Body = BodyTopArray
        /\ MsgOf(r).Message = <<"{", Q, "k", Q, ":", Q, "v", Q, "}">>
        /\ r.body = <<"[", Q>> \o MsgOf(r).Message \o <<Q, "]">>

RECURSIVE Shape(_)

\* The tree without the text of its string leaves: the keys, the lengths of
\* the arrays and the leaves that are not strings.
Shape(v) ==
    CASE v.t = "string" -> JString(<<>>)
      [] v.t = "array" -> JArray([i \in DOMAIN v.items |-> Shape(v.items[i])])
      [] v.t = "object" -> JObject(v.keys, [i \in DOMAIN v.items |-> Shape(v.items[i])])
      [] OTHER -> v

\* C17: the body sent for a template that processWebhookBody takes for
\* structured is a JSON document with the shape of the template, whatever the
\* title and the message hold (quotes, a JSON text, a newline, a backslash,
\* the text of a template action): read back, its string leaves are the
\* strings the walk left there, each one string.
C17_NoReparse ==
    \A r \in requests :
        LET t == Unmarshal(r.webhook.Body)
            o == Unmarshal(r.body)
        IN  t.ok =>
              /\ o.ok
              /\ Shape(o.v) = Shape(t.v)
              /\ o.v = processJSONRecursive(t.v, MsgOf(r)).v

\* The message is a JSON text and the array item of the body sent is that
\* text as one string.
C17_Witness ==
    \E r \in requests :
        /\ r.webhook.Body = BodyP4
        /\ MsgOf(r).Message = <<"{", Q, "k", Q, ":", Q, "v", Q, "}">>
        /\ Unmarshal(r.body).ok
        /\ Unmarshal(r.body).v.keys = <<<<"m">>, <<"t">>>>
        /\ Unmarshal(r.body).v.items[1] = JArray(<<JString(MsgOf(r).Message)>>)

\* The tokens that are template actions, or the start of one.
ActionTokens ==
    {"{{.title}}", "{{.message}}", "{{.other}}", "{{.title.x}}", "{{title}}", "{{message}}",
     "{{"}

\* The template with the title put for each token of titles and the message
\* for each token of messages, as they are, and the rest as it is.
Substituted(s, msg, titles, messages) ==
    Concat([i \in DOMAIN s |->
              IF s[i] \in titles THEN msg.Title
              ELSE IF s[i] \in messages THEN msg.Message
              ELSE <<s[i]>>])

\* The body is a plain-text template made of text and of the placeholders
\* given.
PlainWith(body, placeholders) ==
    /\ ~Unmarshal(body).ok
    /\ \A i \in DOMAIN body : body[i] \in ActionTokens => body[i] \in placeholders

\* C18 as claimed: a plain-text template with the placeholders {{title}} and
\* {{message}} (or {{.title}} and {{.message}}) is sent with the title and the
\* message in their places, as they are, and the rest unchanged.
C18_Claimed ==
    \A s \in Sessions : ReturnedUncancelled(s) =>
        \A i \in DOMAIN call[s].webhooks :
            LET body == call[s].webhooks[i].Body
            IN  PlainWith(body, {"{{title}}", "{{message}}", "{{.title}}", "{{.message}}"}) =>
                    \E r \in RequestsOf(s, i) :
                        r.body = Substituted(body, call[s].msg, {"{{title}}", "{{.title}}"},
                                             {"{{message}}", "{{.message}}"})

\* C18: a plain-text template with the placeholders {{.title}} and
\* {{.message}} is sent with the title and the message in their places, as
\* they are (nothing escaped, nothing rendered again), and the rest unchanged.
C18_PlainText ==
    \A s \in Sessions : ReturnedUncancelled(s) =>
        \A i \in DOMAIN call[s].webhooks :
            LET body == call[s].webhooks[i].Body
            IN  PlainWith(body, {"{{.title}}", "{{.message}}"}) =>
                    /\ RequestsOf(s, i) # {}
                    /\ \A r \in RequestsOf(s, i) :
                          r.body = Substituted(body, call[s].msg, {"{{.title}}"},
                                               {"{{.message}}"})

\* "{{.title}} - {{.message}}" has been sent with a title that has a quote
\* and a message that is a JSON text.
C18_Witness ==
    \E s \in Sessions :
        /\ ReturnedUncancelled(s)
        /\ call[s].webhooks[1].Body = <<"{{.title}}", " ", "-", " ", "{{.message}}">>
        /\ call[s].msg.Title = <<Q, "t">>
        /\ \E r \in RequestsOf(s, 1) :
              r.body = <<Q, "t", " ", "-", " ", "{", Q, "k", Q, ":", Q, "v", Q, "}">>

\* ------------------------------------------------------------------------
\* Properties of ValidateAndSetConfig (SpecValidate)
\* ------------------------------------------------------------------------
\* The URL is empty, does not parse, or parses without a scheme or a host.
Malformed(rawURL) ==
    \/ rawURL = <<>>
    \/ urlParse(rawURL).err # ""
    \/ urlParse(rawURL).Scheme = <<>>
    \/ urlParse(rawURL).Host = <<>>

\* C10: ValidateAndSetConfig returns an error whenever one webhook of the
\* configuration has a malformed URL, wherever that webhook is in the list and
\* whatever the other webhooks are.
C10_RejectsMalformed ==
    returned.op = "ValidateAndSetConfig" =>
        ((\E i \in DOMAIN loaded.WebHooks : Malformed(loaded.WebHooks[i].Url))
            => returned.err # "")

\* A good webhook followed by a malformed one has been refused.
C10_Witness ==
    /\ returned.op = "ValidateAndSetConfig"
    /\ Len(loaded.WebHooks) = 2
    /\ ~Malformed(loaded.WebHooks[1].Url)
    /\ Malformed(loaded.WebHooks[2].Url)
    /\ returned.err # ""

\* C11: when ValidateAndSetConfig returns nil, p.config.WebHooks has the
\* webhooks it was given, in their order, with POST where no method was given
\* and Content-Type text/plain where the header had none; a method that was
\* given and every header that was given are as they were.
C11_ValidationDefaults ==
    returned.op = "ValidateAndSetConfig" /\ returned.err = "" =>
        /\ Len(config.WebHooks) = Len(loaded.WebHooks)
        /\ \A i \in DOMAIN loaded.WebHooks :
              LET in == loaded.WebHooks[i]
                  out == config.WebHooks[i]
              IN  /\ out.Url = in.Url
                  /\ out.Body = in.Body
                  /\ out.Apps = in.Apps
                  /\ out.Method = IF in.Method = <<>> THEN <<"P", "O", "S", "T">> ELSE in.Method
                  /\ DOMAIN out.Header = DOMAIN in.Header \cup {"Content-Type"}
                  /\ \A n \in DOMAIN in.Header : out.Header[n] = in.Header[n]
                  /\ "Content-Type" \notin DOMAIN in.Header
                        => out.Header["Content-Type"] = "text/plain"

\* Accepted: a webhook with no method and another header only, and a webhook
\* with a method and a Content-Type of its own.
C11_Witness ==
    /\ returned = [op |-> "ValidateAndSetConfig", err |-> ""]
    /\ Len(loaded.WebHooks) = 2
    /\ loaded.WebHooks[1].Method = <<>>
    /\ DOMAIN loaded.WebHooks[1].Header = {"X-Token"}
    /\ loaded.WebHooks[2].Method # <<>>
    /\ loaded.WebHooks[2].Header = "Content-Type" :> "application/json"
    /\ Len(config.WebHooks) = 2

\* ------------------------------------------------------------------------
\* Properties of a change of configuration (SpecReconfigure)
\* ------------------------------------------------------------------------
\* What ValidateAndSetConfig makes of the configuration the host holds.
Validated == ValidateLoop(loaded.WebHooks, 1, <<>>)

\* C12 as claimed: an Enable that returns an error has started no goroutine,
\* and no sendMessage is ever called with the webhooks of a configuration
\* that ValidateAndSetConfig refuses.
C12_Claimed ==
    /\ returned.op = "Enable" /\ returned.err # "" => Enabled = {}
    /\ Validated.err # "" =>
          \A s \in Sessions :
              call[s].state # "none" => call[s].webhooks # Validated.webhooks

\* C22 as claimed, for a configuration ValidateAndSetConfig accepts: every
\* request of a session goes to a webhook of the list p.config had when the
\* session connected, with the field values it had then.
C22_Claimed ==
    Validated.err = "" =>
        \A r \in requests :
            \E i \in DOMAIN conn[r.sess].hooksAtDial :
                conn[r.sess].hooksAtDial[i] = r.webhook

\* ------------------------------------------------------------------------
\* Properties of Enable, Disable and the session (Spec, FairSpec)
\* ------------------------------------------------------------------------
\* C14: over a whole run, with its failures and reconnections, at most one
\* request is made for an event and a webhook: a request is never made for a
\* pair that has one already, whatever became of that one.
C14_AtMostOnce ==
    /\ [](\A r1, r2 \in requests : r1.id = r2.id /\ r1.hook = r2.hook => r1 = r2)
    /\ [][\A r \in requests' \ requests :
              r.result = "pending" =>
                  \A r0 \in requests : ~(r0.id = r.id /\ r0.hook = r.hook)]_vars

\* A request has failed, its sendMessage has returned, the session has ended
\* and the next session is connected.
C14_Witness ==
    \E r \in requests :
        /\ r.result = "failed"
        /\ call[r.sess].state = "returned"
        /\ conn[r.sess].state = "closed"
        /\ \E t \in Sessions : t # r.sess /\ conn[t].state = "open"

\* C4: Disable can be called in every state, before any Enable and after
\* another Disable too; it returns nil, and a Disable that finds the context
\* already cancelled changes nothing.
C4_DisableSafe ==
    /\ [](ENABLED Disable)
    /\ [](returned.op = "Disable" => returned.err = "")
    /\ [][Disable /\ (cancel = 0 \/ ctxDone[cancel])
            => UNCHANGED <<loaded, config, cancel, ctxDone, sup, conn, reader, readErrCh,
                           call, worker, requests, nframes, limit>>]_vars

\* Disable has returned nil with no session ever started.
C4_Witness ==
    /\ returned = [op |-> "Disable", err |-> ""]
    /\ cancel = 0
    /\ Enabled = {}

\* Session s ends in this step, its context cancelled after the dial, the
\* server still there.
EndsCancelled(s) ==
    /\ conn[s].state = "open"
    /\ ~conn[s].ctxAtDial
    /\ conn[s].peer = "open"
    /\ ctxDone[conn[s].ctx]
    /\ conn'[s].state = "closed"

\* C5 as claimed: a session whose context is cancelled while it is connected
\* writes the close frame (or fails writing it) before it closes the
\* connection, in every interleaving.
C5_Claimed ==
    [][\A s \in Sessions :
          EndsCancelled(s) /\ conn'[s].ret # "write heartbeat message error" =>
              \/ conn'[s].out # <<>> /\ conn'[s].out[Len(conn'[s].out)] = "close"
              \/ conn'[s].ret = "write close message error"]_vars

\* C6 as claimed: receiveMessages of a session whose context is cancelled
\* while it is connected returns nil, in every interleaving.
C6_Claimed ==
    [][\A s \in Sessions :
          EndsCancelled(s) /\ conn'[s].ret # "write heartbeat message error" =>
              conn'[s].ret = "nil"]_vars

\* C7: under fair scheduling the goroutine of an Enable whose context Disable
\* has cancelled comes to its end, wherever it was, and once at its end it
\* stays there and dials no more.
C7_DisableStopsSupervisor ==
    /\ \A k \in Contexts : (ctxDone[k] /\ sup[k].pc # "none") ~> (sup[k].pc = "done")
    /\ [][\A k \in Contexts : sup[k].pc = "done" =>
              /\ sup'[k].pc = "done"
              /\ \A s \in Sessions : conn[s].ctx = k => conn'[s].state = conn[s].state]_vars

\* The goroutine has ended after a Disable that found it in a session.
C7_Witness ==
    \E k \in Contexts :
        /\ ctxDone[k]
        /\ returned.op = "Disable"
        /\ sup[k].pc = "done"
        /\ \E s \in Sessions : conn[s].ctx = k /\ conn[s].ret = "nil"

\* Session s of context k ends in this step with an error that is not the
\* cancellation.
EndsWithError(k, s) ==
    /\ sup[k].sess = s
    /\ conn[s].state = "open"
    /\ conn'[s].state = "closed"
    /\ conn'[s].ret \notin {"nil", "context canceled"}

\* C9: the goroutine of Enable ends only when its context is cancelled; a
\* session that ends with an error sends it to the one-second sleep, and under
\* fair scheduling the sleep is followed by a new dial unless the context is
\* cancelled meanwhile.
C9_Reconnect ==
    /\ [](\A k \in Contexts : sup[k].pc = "done" => ctxDone[k])
    /\ [][\A k \in Contexts, s \in Sessions :
              EndsWithError(k, s) => sup'[k].pc = "sleep"]_vars
    /\ \A k \in Contexts : (sup[k].pc = "sleep") ~> (sup[k].pc = "dial" \/ ctxDone[k])

\* A session has ended with a read error and the next one is connected, the
\* context not cancelled.
C9_Witness ==
    \E k \in Contexts :
        /\ ~ctxDone[k]
        /\ \E s, t \in Sessions :
              /\ conn[s].ctx = k
              /\ conn[s].ret = "read message error"
              /\ conn[t].ctx = k
              /\ conn[t].state = "open"

\* ------------------------------------------------------------------------
\* Properties of the stream of frames (SpecStream)
\* ------------------------------------------------------------------------
\* The goroutines of call[s] that have not returned yet.
Unfinished(s) == {i \in DOMAIN worker[s] : worker[s][i].pc # "done"}

\* The requests of session s that are still on their way.
InFlight(s) == {r \in requests : r.sess = s /\ r.result = "pending"}

\* C21: sendMessage returns only when every goroutine it started has returned,
\* and nothing is appended to its errors afterwards; the reader of a session
\* reads the next frame only when no goroutine of the last call is left and
\* no request of the session is on its way, so a request for a later event is
\* made only when every request for an earlier event of the session has ended.
C21_JoinedInOrder ==
    /\ [][\A s \in Sessions :
            /\ call[s].state = "running" /\ call'[s].state = "returned"
                  => Unfinished(s) = {} /\ InFlight(s) = {}
            /\ call[s].state = "returned" /\ call'[s].state = "returned"
                  => call'[s].errors = call[s].errors /\ worker'[s] = worker[s]
            /\ conn'[s].inbox # conn[s].inbox /\ Len(conn'[s].inbox) < Len(conn[s].inbox)
                  /\ conn'[s].state = "open"
                  => Unfinished(s) = {} /\ InFlight(s) = {}
            /\ \A r \in requests' \ requests :
                  r.sess = s /\ r.result = "pending"
                  => \A q \in requests : q.sess = s /\ q.id # r.id => q.result # "pending"]_vars
    /\ [](\A s \in Sessions : reader[s] # "send" => Unfinished(s) = {} /\ InFlight(s) = {})

\* Two events of one session have each been sent to a webhook, and both
\* requests have ended.
C21_Witness ==
    \E s \in Sessions : \E r, q \in requests :
        /\ r.sess = s /\ q.sess = s
        /\ r.id = 1 /\ q.id = 2
        /\ r.result # "pending" /\ q.result # "pending"
        /\ call[s].state = "returned"

\* What receiveMessages returns for a reason that is not a dispatch: the
\* cancellation, a failed read, a failed write.
SessionErrors ==
    {"", "nil", "context canceled", "read message error", "write close message error",
     "write heartbeat message error"}

\* C24: when sendMessage returns errors, the reader goes back to its select
\* with the connection, the channel and receiveMessages as they were; no
\* session ever ends with an error of a dispatch; and the next event starts a
\* call with a goroutine for every webhook of p.config and no error, in which,
\* the context not cancelled, every webhook that takes the message and whose
\* request can be built gets its request.
C24_DispatchErrorsNotFatal ==
    /\ [][\A s \in Sessions :
            /\ call[s].state = "running" /\ call'[s].state = "returned"
                  /\ call[s].errors # <<>>
                  => /\ reader'[s] = "select"
                     /\ conn'[s] = conn[s]
                     /\ readErrCh'[s] = readErrCh[s]
                     /\ sup' = sup
            /\ call[s].state = "returned" /\ call'[s].state = "running"
                  => /\ call'[s].webhooks = config.WebHooks
                     /\ call'[s].errors = <<>>
                     /\ DOMAIN worker'[s] = DOMAIN config.WebHooks
                     /\ \A i \in DOMAIN worker'[s] : worker'[s][i].pc = "start"]_vars
    /\ [](\A s \in Sessions :
            /\ conn[s].ret \in SessionErrors
            /\ \A n \in DOMAIN readErrCh[s].buf : readErrCh[s].buf[n] \in SessionErrors
            /\ ReturnedUncancelled(s) =>
                  \A i \in DOMAIN call[s].webhooks :
                      Eligible(s, i) /\ ~BuildFails(s, i) /\ Sendable(s, i)
                          => RequestsOf(s, i) # {})

\* The first event of a session failed at a webhook, with a status that is
\* not a 2xx or a broken request, and the second event of the same session
\* was delivered to it, the connection still open.
C24_Witness ==
    \E s \in Sessions : \E r, q \in requests :
        /\ r.sess = s /\ q.sess = s /\ r.hook = q.hook
        /\ r.id = 1 /\ q.id = 2
        /\ r.result = "failed" \/ (r.result = "answered" /\ r.status \notin 200..299)
        /\ q.result = "answered" /\ q.status \in 200..299
        /\ call[s].state = "returned"
        /\ conn[s].state = "open"
        /\ reader[s] = "select"

\* The reader of session s takes frame f from the connection in this step.
Reads(s, f) ==
    /\ conn[s].inbox # <<>>
    /\ f = Head(conn[s].inbox)
    /\ conn'[s] = [conn[s] EXCEPT !.inbox = Tail(@)]

\* C25: reading a frame whose text is not that of an event (kind "text":
\* json.Unmarshal refuses it) starts no call of sendMessage and makes no
\* request, and leaves the reader at its select with the session as it was;
\* the text of an event, read in whatever state the earlier frames left,
\* starts the call for that event with the webhooks of p.config; and every
\* request is made by the call that is running, for the message of that call.
C25_DecodeErrorSkipsFrame ==
    [][\A s \in Sessions :
          /\ \A f \in Frames(1) \cup Frames(2) :
                Reads(s, f) /\ f.kind \in {"text", "event"} =>
                    IF f.kind = "event"
                    THEN /\ call'[s].state = "running"
                         /\ call'[s].msg = [ID |-> f.id, ApplicationID |-> f.app,
                                            Title |-> f.title, Message |-> f.message]
                         /\ call'[s].webhooks = config.WebHooks
                         /\ call'[s].errors = <<>>
                         /\ reader'[s] = "send"
                    ELSE /\ call' = call
                         /\ worker' = worker
                         /\ requests' = requests
                         /\ reader'[s] = "select"
                         /\ sup' = sup
                         /\ readErrCh' = readErrCh
          /\ \A r \in requests' \ requests :
                r.sess = s /\ r.result = "pending"
                    => call[s].state = "running" /\ r.id = call[s].msg.ID]_vars

\* The first frame of a session did not decode and the second, an event, was
\* delivered: the webhook that takes every message has the request for
\* event 2, no request was made for anything else, and the session is open.
C25_Witness ==
    \E s \in Sessions : \E q \in requests :
        /\ q.sess = s /\ q.id = 2
        /\ q.webhook.Apps = {}
        /\ q.result = "answered" /\ q.status \in 200..299
        /\ \A r \in requests : r.id = 2
        /\ ~ctxDone[conn[s].ctx]
        /\ conn[s].state = "open"

\* C26 as claimed: reading a frame that does not begin with "{" (the literal
\* null, or a text that is not an object) starts no call of sendMessage and
\* makes no request.
C26_Claimed ==
    [][\A s \in Sessions : \A f \in Frames(1) \cup Frames(2) :
          Reads(s, f) /\ f.kind # "event"
              => call' = call /\ worker' = worker /\ requests' = requests]_vars

\* A request went out for the zero message, which only the frame null gives.
C26_Witness ==
    \E r \in requests : r.id = 0 /\ r.app = 0 /\ r.body = <<" ">>

\* ------------------------------------------------------------------------
\* Properties of the end of a session (Spec)
\* ------------------------------------------------------------------------
\* The close frame is written to the connection of session s in this step.
WritesClose(s) ==
    /\ Len(conn'[s].out) = Len(conn[s].out) + 1
    /\ conn'[s].out[Len(conn'[s].out)] = "close"

\* C23 as claimed: when the context is cancelled after the session connected,
\* the step of receiveMessages that writes the close frame leaves the
\* connection open; the connection is closed by a later step.
C23_Claimed ==
    [][\A s \in Sessions :
          WritesClose(s) /\ ~conn[s].ctxAtDial => conn'[s].state = "open"]_vars

\* The heartbeat is written to the connection of session s in this step.
WritesHeartbeat(s) ==
    /\ Len(conn'[s].out) = Len(conn[s].out) + 1
    /\ conn'[s].out[Len(conn'[s].out)] = "heartbeat"

\* receiveMessages of session s returns in this step because the write of a
\* heartbeat failed.
HeartbeatFails(s) ==
    /\ conn[s].state = "open"
    /\ conn'[s].ret = "write heartbeat message error"

\* C27: when the write of a heartbeat fails, receiveMessages returns the error
\* of that write, which is not the cancellation, the connection is closed and
\* the goroutine of Enable goes to its sleep of one second; from there it
\* comes to dial again unless the context is cancelled.  When the write
\* succeeds the connection stays open and receiveMessages stays in its loop.
C27_HeartbeatFailure ==
    /\ [][\A s \in Sessions :
            /\ HeartbeatFails(s) =>
                  /\ conn'[s].state = "closed"
                  /\ conn'[s].ret \notin {"nil", "context canceled"}
                  /\ sup'[conn[s].ctx].pc = "sleep"
            /\ WritesHeartbeat(s) =>
                  /\ conn'[s].state = "open"
                  /\ conn'[s].ret = ""
                  /\ sup'[conn[s].ctx] = [pc |-> "loop", sess |-> s]]_vars
    /\ \A k \in Contexts :
          (sup[k].pc = "sleep" /\ sup[k].sess # 0
              /\ conn[sup[k].sess].ret = "write heartbeat message error")
              ~> (sup[k].pc = "dial" \/ ctxDone[k])

\* After a failed heartbeat the goroutine of Enable is about to dial again,
\* the context not cancelled.
C27_Witness ==
    \E k \in Contexts :
        /\ sup[k].pc = "dial"
        /\ ~ctxDone[k]
        /\ sup[k].sess # 0
        /\ conn[sup[k].sess].state = "closed"
        /\ conn[sup[k].sess].ret = "write heartbeat message error"

\* C29 as claimed: no connection is made with a context that Disable has
\* cancelled already.
C29_Claimed ==
    \A s \in Sessions : conn[s].state # "none" => ~conn[s].ctxAtDial

\* ------------------------------------------------------------------------
\* Properties of Enable called again (SpecTwice)
\* ------------------------------------------------------------------------
\* C30 as claimed: when the last call of the host is Disable, the context of
\* every goroutine an Enable started is cancelled.
C30_Claimed ==
    returned.op = "Disable" => \A k \in Enabled : ctxDone[k]

\* ------------------------------------------------------------------------
\* Properties of a session and the one that follows it (SpecReconnect)
\* ------------------------------------------------------------------------
\* The requests on their way that the goroutine of Enable number k is
\* answerable for: those of the sessions it connected.
InFlightOf(k) ==
    {r \in requests : r.result = "pending" /\ conn[r.sess].ctx = k}

\* C31 as claimed: the requests on their way for one goroutine of Enable are
\* all for one event of the session it is in; and while a session dispatches
\* an event, no goroutine of sendMessage of an earlier session of the same
\* goroutine of Enable is still running.
C31_Claimed ==
    /\ \A k \in Contexts : \A r, q \in InFlightOf(k) :
          r.sess = q.sess /\ r.id = q.id /\ r.sess = sup[k].sess
    /\ \A s1, s2 \in Sessions :
          s1 < s2 /\ conn[s2].state # "none" /\ conn[s1].ctx = conn[s2].ctx
              /\ call[s2].state = "running"
              => Unfinished(s1) = {}

\* The session that lost its heartbeat has a request on its way while the
\* session that followed it has one on its way too.
C31_Witness ==
    \E r, q \in requests :
        /\ r.result = "pending" /\ q.result = "pending"
        /\ r.sess < q.sess
        /\ conn[r.sess].ctx = conn[q.sess].ctx
        /\ conn[r.sess].ret = "write heartbeat message error"
        /\ conn[q.sess].state = "open"

\* ------------------------------------------------------------------------
\* Properties of the channel of the reader goroutine (Spec)
\* ------------------------------------------------------------------------
\* The reader goroutine of session s is running.
ReaderRuns(s) == reader[s] \in {"select", "read", "send"}

\* C32: while the reader goroutine runs it has sent nothing on readErrCh and
\* has not closed it, so the one send it makes, on ctx.Done() or on a failed
\* read, finds the place of the channel free and can be made whether or not
\* receiveMessages still receives; the step that sends closes the channel and
\* ends the goroutine, and the channel never holds more than one value.
C32_ReaderNeverBlocks ==
    /\ [](\A s \in Sessions :
            /\ Len(readErrCh[s].buf) <= 1
            /\ ReaderRuns(s) => readErrCh[s].buf = <<>> /\ ~readErrCh[s].closed
            /\ reader[s] = "exit" => readErrCh[s].closed
            /\ reader[s] = "select" => ENABLED ReaderSelect(s)
            /\ reader[s] = "read"
                  /\ (conn[s].state = "closed" \/ (conn[s].peer = "closed" /\ conn[s].inbox = <<>>))
                  => ENABLED ReaderReadError(s))
    /\ [][\A s \in Sessions :
            Len(readErrCh'[s].buf) > Len(readErrCh[s].buf)
                => /\ ReaderRuns(s)
                   /\ reader'[s] = "exit"
                   /\ readErrCh'[s].closed]_vars

\* The reader goroutine has sent its value and ended after receiveMessages
\* had returned by the cancellation or by a failed heartbeat: the value stays
\* in the channel, which nobody receives from.
C32_Witness ==
    \E s \in Sessions :
        /\ reader[s] = "exit"
        /\ readErrCh[s].buf # <<>>
        /\ conn[s].state = "closed"
        /\ conn[s].ret \in {"nil", "write heartbeat message error"}
====
